---- MODULE Spec2Model ----
(***************************************************************************)
(* StorySpark: the wizard (App.tsx), the idea intake (StoryIdeaGenerator), *)
(* the scene prompt picker (StoryGenerator), the scene overview and image  *)
(* generation orchestrator (PromptOverview) and the image mask editor      *)
(* (ImageEditor), as one state machine.                                    *)
(*                                                                         *)
(* Every React event handler is one action.  An async handler is split at  *)
(* each await on an external call: the part up to the await is the action  *)
(* of the click, the continuation is the action of the response.  A        *)
(* continuation reads the props and state captured by the closure of the   *)
(* render in which the handler was created; those captured values are kept *)
(* in the record of the in-flight task.  Functional state updates          *)
(* (setX(prev => ...)) read the current state instead.  A call that ends   *)
(* without reaching the network (no credential, exception before the       *)
(* request) resolves in a microtask, so no other event interleaves and the *)
(* handler runs to its end in the same action.                             *)
(***************************************************************************)
EXTENDS Integers, Sequences, FiniteSets, TLC

\* ------------------------------------------------------------- bounds
\* scenes of a story (the overview specifications use exactly this many)
NumScenes == 2
\* candidate-pair requests a user starts in one behaviour
MaxRequests == 3
\* of these, the first MaxGenerate may be started by a per-scene generate or
\* a generate-all click
MaxGenerate == 2
\* files a user gives to a FileReader in one behaviour
MaxUploads == 1

\* ------------------------------------------------------------- values
\* null / undefined of an image-valued field
NoRef == "null"
\* data URLs a user can upload as the reference image
RefImages == {"refA", "refB"}

\* a generated image: the reference image its request carried, the request
\* that produced it and the call (1 or 2) of that request
NoImage == [ref |-> "null", req |-> 0, call |-> 0]
\* marker of a call whose response has not arrived
Pending == [ref |-> "pending", req |-> 0, call |-> 0]

\* Option encoding of a nullable array: null is <<>>, an array a is <<a>>
Null == <<>>
Some(a) == <<a>>

Range(s) == {s[i] : i \in 1..Len(s)}

\* the filter as it would be if it put the later result first
RemoveNull_Reversed(s) ==
  LET kept == SelectSeq(s, LAMBDA u : u # NoImage)
  IN [i \in 1..Len(kept) |-> kept[Len(kept) + 1 - i]]
\* [a, b].filter(x => x !== null)  /  .filter(Boolean)
RemoveNull(s) == SelectSeq(s, LAMBDA u : u # NoImage)

\* file.size limit of both upload handlers
MaxFileSize == 10 * 1024 * 1024
\* MIME types as <<type, subtype>>
MimeTypes == {<<"image", "png">>, <<"image", "bmp">>, <<"text", "plain">>}
FileSizes == {1024, MaxFileSize, MaxFileSize + 1}
Files == [type : MimeTypes, size : FileSizes, data : RefImages]
\* the size check as it would be if it rejected the limit itself
TooLarge_Inclusive(size) == size >= MaxFileSize
\* file.size > 10 * 1024 * 1024
TooLarge(size) == size > MaxFileSize
\* file.type.startsWith('image/')
IsImageType(type) == type[1] = "image"

\* String.prototype.trim on a sequence of characters
RECURSIVE TrimStart(_)
TrimStart(s) ==
  IF s # <<>> /\ Head(s) = " " THEN TrimStart(Tail(s)) ELSE s
RECURSIVE TrimEnd(_)
TrimEnd(s) ==
  IF s # <<>> /\ s[Len(s)] = " " THEN TrimEnd(SubSeq(s, 1, Len(s) - 1)) ELSE s
Trim(s) == TrimEnd(TrimStart(s))

\* alert(...) / setError(...) messages, as <<key, scene number or 0>>
Msg(key) == <<key, 0>>
\* setError(null)
NoError == Msg("")
MsgApiKey == Msg("API_KEY environment variable is not set.")
MsgGenFailed(n) == <<"Failed to generate image for Scene", n>>

VARIABLES
  \* App.tsx
  appStep, storyConfig, generatedScenes, overviewData, isEditingImage,
  \* process.env.API_KEY is set
  apiKey,
  \* StoryIdeaGenerator
  error, isBrainstorming, isGenerating, progress, progressInterval,
  brainstormReq, storyReq, pendingNext,
  \* FileReader reads in progress, and the number of reads started so far
  pendingReads, uploads,
  \* StoryGenerator
  storyScenes, currentSceneIndex,
  \* PromptOverview
  generatedImages, selectedImages, loadingScenes, isGeneratingAll,
  isSequentialGenerating, currentSequentialScene, sequentialImages,
  tempSelectedImage, isSequentialSceneLoading,
  \* in-flight image generation handlers of PromptOverview, and the number
  \* of the next request
  tasks, nextReq,
  \* ImageEditor
  currentImage, editPrompt, editGenerating, results, editReq,
  \* the messages shown by alert() in the last step
  alerted

rootVars == <<appStep, generatedScenes, overviewData, isEditingImage, apiKey>>
intakeVars == <<error, isBrainstorming, isGenerating, progress, progressInterval,
                brainstormReq, storyReq, pendingNext>>
pickerVars == <<storyScenes, currentSceneIndex>>
seqVars == <<isSequentialGenerating, currentSequentialScene, sequentialImages,
             tempSelectedImage, isSequentialSceneLoading>>
editorVars == <<currentImage, editPrompt, editGenerating, results, editReq>>
overviewVars == <<generatedImages, selectedImages, loadingScenes, isGeneratingAll,
                  seqVars, tasks, nextReq>>
vars == <<rootVars, storyConfig, intakeVars, pendingReads, uploads, pickerVars,
          overviewVars, editorVars, alerted>>

\* ------------------------------------------------------------- App.tsx
\* strings whose white space matters are sequences of characters; storyStyle,
\* imageStyle, targetAge and targetGender only reach the prompt texts and are
\* left out
initialStoryConfig ==
  [idea |-> <<>>, videoType |-> "loop", videoLength |-> "10s",
   hasReferenceImage |-> FALSE, referenceImage |-> NoRef]

\* getAi(): null (after an alert) when the credential is absent
getAi == apiKey

\* renderContent: the edit overlay replaces the step view
EditorShown == isEditingImage /\ storyConfig.referenceImage # NoRef

\* renderContent: the StoryIdeaGenerator component is mounted
IntakeMounted ==
  /\ ~EditorShown
  /\ \/ appStep = "idea"
     \/ appStep = "generator" /\ generatedScenes = Null
     \/ appStep = "overview" /\ overviewData = Null

\* renderContent: the StoryGenerator component is mounted
PickerMounted == ~EditorShown /\ appStep = "generator" /\ generatedScenes # Null

\* renderContent: the PromptOverview component is mounted
OverviewMounted == ~EditorShown /\ appStep = "overview" /\ overviewData # Null

\* the step view under the edit overlay is the StoryIdeaGenerator
StepViewIsIntake ==
  \/ appStep = "idea"
  \/ appStep = "generator" /\ generatedScenes = Null
  \/ appStep = "overview" /\ overviewData = Null

\* renderContent after the reference image has become newRef: an overlay
\* that handleNewStory left open (it does not clear isEditingImage) replaces
\* the step view, and the ImageEditor is constructed on the new image
EditorOnMount(newRef) ==
  IF isEditingImage /\ storyConfig.referenceImage = NoRef /\ newRef # NoRef
  THEN /\ currentImage' = newRef
       /\ editPrompt' = <<>>
       /\ editGenerating' = FALSE
       /\ results' = <<>>
  ELSE UNCHANGED <<currentImage, editPrompt, editGenerating, results>>

\* the scenes prop of PromptOverview
scenes == IF overviewData = Null THEN <<>> ELSE overviewData[1]
SceneNumbers == {scenes[i].sceneNumber : i \in 1..Len(scenes)}
AllScenes == 1..NumScenes

\* ------------------------------------------------------------- PromptOverview
NoImages == [n \in AllScenes |-> <<>>]
NoSelection == [n \in AllScenes |-> NoImage]
NotLoading == [n \in AllScenes |-> FALSE]

\* the call as it would be without the check of getAi()
CanCall_NoCredentialCheck(ref) == ref # NoRef
\* a call of generateImageForScene reaches ai.models.generateContent:
\* getAi() is not null and referenceImage.split does not throw
CanCall(ref) == getAi /\ ref # NoRef

\* the alerts of one generateImageForScene call pair that does not reach the
\* network
LocalCallAlerts == IF getAi THEN {} ELSE {MsgApiKey}

\* the image call c of task t returns when the model answers with an image
GenResult(t, c) == [ref |-> t.ref, req |-> t.req, call |-> c]

\* the record of an in-flight handler.  kind "gen": handleGenerate, its two
\* calls one after the other; kind "seq": the Promise.all of the sequential
\* handlers.  ref, prev: the arguments of its generateImageForScene calls.
\* walk: the handleGenerate was called by handleGenerateAll, whose closure
\* holds snap, the scenes that had candidates when the walk was started.
\* live: the component instance that started the handler is still mounted.
\* before: the scene's candidates and selection when the handler was called
\* (kept for the statements about what a failed handler leaves behind).
\* by: the control whose click runs the handler (kept for the statements
\* about the requests of one control).
NewTask(by, kind, req, n, ref, prev, walk, snap) ==
  [by |-> by, kind |-> kind, req |-> req, scene |-> n, ref |-> ref, prev |-> prev,
   r1 |-> Pending, walk |-> walk, snap |-> snap, live |-> TRUE,
   before |-> [gen |-> generatedImages[n], sel |-> selectedImages[n]]]

\* allImagesGenerated / allImagesSelected
allImagesGenerated == \A n \in SceneNumbers : Len(generatedImages[n]) > 0
SelectedKeys == {n \in AllScenes : selectedImages[n] # NoImage}
allImagesSelected ==
  allImagesGenerated /\ Cardinality(SelectedKeys) = Len(scenes)

\* disabled={!allImagesSelected} of the "download all" button
DownloadAllEnabled == OverviewMounted /\ allImagesSelected

\* the sequential modal is rendered
ModalShown ==
  OverviewMounted /\ isSequentialGenerating /\ currentSequentialScene # 0

\* the walk as it would be if it ended after its first scene
NextWalkScene_FirstOnly(n, snap) ==
  LET rest == {m \in SceneNumbers : m \notin snap}
  IN IF n > 0 \/ rest = {} THEN 0 ELSE CHOOSE m \in rest : \A k \in rest : m <= k

\* for (const scene of scenes) if (!generatedImages[scene.sceneNumber]):
\* the next scene after number n that the walk generates, 0 at the end
NextWalkScene(n, snap) ==
  LET rest == {m \in SceneNumbers : m > n /\ m \notin snap}
  IN IF rest = {} THEN 0 ELSE CHOOSE m \in rest : \A k \in rest : m <= k

\* the effect as it would be if it reset the candidates only
RefEffect_CandidatesOnly(newRef) ==
  IF OverviewMounted /\ newRef # storyConfig.referenceImage
  THEN /\ generatedImages' = NoImages
       /\ UNCHANGED selectedImages
  ELSE UNCHANGED <<generatedImages, selectedImages>>

\* useEffect on storyConfig.referenceImage
RefEffect(newRef) ==
  IF OverviewMounted /\ newRef # storyConfig.referenceImage
  THEN /\ generatedImages' = NoImages
       /\ selectedImages' = NoSelection
  ELSE UNCHANGED <<generatedImages, selectedImages>>

\* setSelectedImages(prev => { delete newState[sceneNumber] })
ClearSelection(sel, n) == [sel EXCEPT ![n] = NoImage]

HandleGenerate(n) ==
  /\ OverviewMounted
  /\ n \in SceneNumbers
  /\ ~loadingScenes[n]
  /\ generatedImages[n] = <<>> \/ Len(generatedImages[n]) > 1
  /\ selectedImages' = ClearSelection(selectedImages, n)
  /\ IF CanCall(storyConfig.referenceImage)
     THEN /\ nextReq <= MaxGenerate
          /\ loadingScenes' = [loadingScenes EXCEPT ![n] = TRUE]
          /\ tasks' = tasks \cup {NewTask("generate", "gen", nextReq, n,
                         storyConfig.referenceImage, NoImage, FALSE, {})}
          /\ nextReq' = nextReq + 1
          /\ alerted' = {}
     ELSE /\ loadingScenes' = [loadingScenes EXCEPT ![n] = FALSE]
          /\ alerted' = LocalCallAlerts \cup {MsgGenFailed(n)}
          /\ UNCHANGED <<tasks, nextReq>>
  /\ UNCHANGED <<rootVars, storyConfig, intakeVars, pendingReads, uploads,
                 pickerVars,
                 generatedImages, isGeneratingAll, seqVars, editorVars>>

\* the response of the first call of handleGenerate: the second call is issued
GenFirstReturns(t, res) ==
  /\ t \in tasks
  /\ t.kind = "gen"
  /\ t.r1 = Pending
  /\ res \in {GenResult(t, 1), NoImage}
  /\ tasks' = (tasks \ {t}) \cup {[t EXCEPT !.r1 = res]}
  /\ alerted' = {}
  /\ UNCHANGED <<rootVars, storyConfig, intakeVars, pendingReads, uploads,
                 pickerVars,
                 generatedImages, selectedImages, loadingScenes, isGeneratingAll,
                 seqVars, nextReq, editorVars>>

\* the response of the second call of handleGenerate: the handler ends, and
\* a handleGenerateAll that awaited it goes on with its loop
GenSecondReturns(t, res) ==
  /\ t \in tasks
  /\ t.kind = "gen"
  /\ t.r1 # Pending
  /\ res \in {GenResult(t, 2), NoImage}
  /\ LET urls == RemoveNull(<<t.r1, res>>)
         next == IF t.walk THEN NextWalkScene(t.scene, t.snap) ELSE 0
         done == IF t.live THEN [loadingScenes EXCEPT ![t.scene] = FALSE]
                 ELSE loadingScenes
     IN /\ generatedImages' =
             IF t.live /\ urls # <<>>
             THEN [generatedImages EXCEPT ![t.scene] = urls]
             ELSE generatedImages
        /\ alerted' = IF urls = <<>> THEN {MsgGenFailed(t.scene)} ELSE {}
        /\ IF next = 0
           THEN /\ tasks' = tasks \ {t}
                /\ loadingScenes' = done
                /\ isGeneratingAll' =
                     IF t.walk /\ t.live THEN FALSE ELSE isGeneratingAll
                /\ UNCHANGED <<selectedImages, nextReq>>
           ELSE /\ tasks' = (tasks \ {t}) \cup
                     {[NewTask("generateAll", "gen", nextReq, next, t.ref, NoImage, TRUE,
                               t.snap)
                         EXCEPT !.live = t.live]}
                /\ nextReq' = nextReq + 1
                /\ loadingScenes' =
                     IF t.live THEN [done EXCEPT ![next] = TRUE] ELSE done
                /\ selectedImages' =
                     IF t.live THEN ClearSelection(selectedImages, next)
                     ELSE selectedImages
                /\ UNCHANGED isGeneratingAll
  /\ UNCHANGED <<rootVars, storyConfig, intakeVars, pendingReads, uploads,
                 pickerVars,
                 seqVars, editorVars>>

HandleGenerateAll ==
  /\ OverviewMounted
  /\ ~isGeneratingAll
  /\ ~allImagesGenerated
  /\ ~isSequentialGenerating
  /\ LET snap == {n \in SceneNumbers : generatedImages[n] # <<>>}
         first == NextWalkScene(0, snap)
     IN IF CanCall(storyConfig.referenceImage)
        THEN /\ nextReq <= MaxGenerate
             /\ isGeneratingAll' = TRUE
             /\ loadingScenes' = [loadingScenes EXCEPT ![first] = TRUE]
             /\ selectedImages' = ClearSelection(selectedImages, first)
             /\ tasks' = tasks \cup {NewTask("generateAll", "gen", nextReq, first,
                            storyConfig.referenceImage, NoImage, TRUE, snap)}
             /\ nextReq' = nextReq + 1
             /\ alerted' = {}
        ELSE /\ selectedImages' =
                  [n \in AllScenes |->
                     IF n \in SceneNumbers \ snap THEN NoImage
                     ELSE selectedImages[n]]
             /\ loadingScenes' =
                  [n \in AllScenes |->
                     IF n \in SceneNumbers \ snap THEN FALSE
                     ELSE loadingScenes[n]]
             /\ alerted' = LocalCallAlerts \cup
                  {MsgGenFailed(n) : n \in SceneNumbers \ snap}
             /\ UNCHANGED <<isGeneratingAll, tasks, nextReq>>
  /\ UNCHANGED <<rootVars, storyConfig, intakeVars, pendingReads, uploads,
                 pickerVars,
                 generatedImages, seqVars, editorVars>>

\* the selection as it would be if it narrowed the candidates to the image
HandleSelectImage_Narrows(n, src) ==
  /\ OverviewMounted
  /\ n \in SceneNumbers
  /\ ~loadingScenes[n]
  /\ src \in Range(generatedImages[n])
  /\ selectedImages' = [selectedImages EXCEPT ![n] = src]
  /\ generatedImages' = [generatedImages EXCEPT ![n] = <<src>>]
  /\ alerted' = {}
  /\ UNCHANGED <<rootVars, storyConfig, intakeVars, pendingReads, uploads,
                 pickerVars,
                 loadingScenes, isGeneratingAll, seqVars,
                 tasks, nextReq, editorVars>>

HandleSelectImage(n, src) ==
  /\ OverviewMounted
  /\ n \in SceneNumbers
  /\ ~loadingScenes[n]
  /\ src \in Range(generatedImages[n])
  /\ selectedImages' = [selectedImages EXCEPT ![n] = src]
  /\ alerted' = {}
  /\ UNCHANGED <<rootVars, storyConfig, intakeVars, pendingReads, uploads,
                 pickerVars,
                 generatedImages, loadingScenes, isGeneratingAll, seqVars,
                 tasks, nextReq, editorVars>>

\* the step of a sequential handler that issues its call pair (Promise.all of
\* two generateImageForScene calls for scene n), after the handler has set
\* isSequentialSceneLoading and left imgs in sequentialImages
SeqIssue(by, n, prev, imgs) ==
  IF CanCall(storyConfig.referenceImage)
  THEN /\ nextReq <= MaxRequests
       /\ tasks' = tasks \cup {NewTask(by, "seq", nextReq, n,
                      storyConfig.referenceImage, prev, FALSE, {})}
       /\ nextReq' = nextReq + 1
       /\ isSequentialSceneLoading' = TRUE
       /\ sequentialImages' = imgs
       /\ alerted' = {}
  ELSE /\ sequentialImages' = <<>>
       /\ isSequentialSceneLoading' = FALSE
       /\ alerted' = LocalCallAlerts
       /\ UNCHANGED <<tasks, nextReq>>

\* the start as it would be if its button were enabled during a walk
HandleStartSequential_DuringWalk ==
  /\ OverviewMounted
  /\ ~isSequentialGenerating
  /\ IF storyConfig.referenceImage = NoRef
     THEN /\ alerted' = {Msg("errorNoReferenceImage")}
          /\ UNCHANGED overviewVars
     ELSE /\ generatedImages' = NoImages
          /\ selectedImages' = NoSelection
          /\ tempSelectedImage' = NoImage
          /\ isSequentialGenerating' = TRUE
          /\ UNCHANGED <<loadingScenes, isGeneratingAll>>
          /\ IF Len(scenes) = 0
             THEN /\ alerted' = {}
                  /\ UNCHANGED <<currentSequentialScene, sequentialImages,
                                 isSequentialSceneLoading, tasks, nextReq>>
             ELSE /\ currentSequentialScene' = scenes[1].sceneNumber
                  /\ SeqIssue("start", scenes[1].sceneNumber, NoImage,
                              sequentialImages)
  /\ UNCHANGED <<rootVars, storyConfig, intakeVars, pendingReads, uploads,
                 pickerVars,
                 editorVars>>

HandleStartSequential ==
  /\ OverviewMounted
  /\ ~isGeneratingAll
  /\ ~isSequentialGenerating
  /\ IF storyConfig.referenceImage = NoRef
     THEN /\ alerted' = {Msg("errorNoReferenceImage")}
          /\ UNCHANGED overviewVars
     ELSE /\ generatedImages' = NoImages
          /\ selectedImages' = NoSelection
          /\ tempSelectedImage' = NoImage
          /\ isSequentialGenerating' = TRUE
          /\ UNCHANGED <<loadingScenes, isGeneratingAll>>
          /\ IF Len(scenes) = 0
             \* scenes[0].sceneNumber throws; the updates above are kept
             THEN /\ alerted' = {}
                  /\ UNCHANGED <<currentSequentialScene, sequentialImages,
                                 isSequentialSceneLoading, tasks, nextReq>>
             ELSE /\ currentSequentialScene' = scenes[1].sceneNumber
                  /\ SeqIssue("start", scenes[1].sceneNumber, NoImage,
                              sequentialImages)
  /\ UNCHANGED <<rootVars, storyConfig, intakeVars, pendingReads, uploads,
                 pickerVars,
                 editorVars>>

\* the continuation as it would be if a pair without an image left the
\* dialog loading
SeqCallsReturn_LoadingOnFailure(t, res1, res2) ==
  /\ t \in tasks
  /\ t.kind = "seq"
  /\ res1 \in {GenResult(t, 1), NoImage}
  /\ res2 \in {GenResult(t, 2), NoImage}
  /\ tasks' = tasks \ {t}
  /\ IF t.live /\ RemoveNull(<<res1, res2>>) # <<>>
     THEN /\ sequentialImages' = RemoveNull(<<res1, res2>>)
          /\ isSequentialSceneLoading' = FALSE
     ELSE UNCHANGED <<sequentialImages, isSequentialSceneLoading>>
  /\ alerted' = {}
  /\ UNCHANGED <<rootVars, storyConfig, intakeVars, pendingReads, uploads,
                 pickerVars,
                 generatedImages, selectedImages, loadingScenes, isGeneratingAll,
                 isSequentialGenerating, currentSequentialScene,
                 tempSelectedImage, nextReq, editorVars>>

\* the continuation of a Promise.all pair: both calls have returned, res1 and
\* res2 are their results
SeqCallsReturn(t, res1, res2) ==
  /\ t \in tasks
  /\ t.kind = "seq"
  /\ res1 \in {GenResult(t, 1), NoImage}
  /\ res2 \in {GenResult(t, 2), NoImage}
  /\ tasks' = tasks \ {t}
  /\ IF t.live
     THEN /\ sequentialImages' = RemoveNull(<<res1, res2>>)
          /\ isSequentialSceneLoading' = FALSE
     ELSE UNCHANGED <<sequentialImages, isSequentialSceneLoading>>
  /\ alerted' = {}
  /\ UNCHANGED <<rootVars, storyConfig, intakeVars, pendingReads, uploads,
                 pickerVars,
                 generatedImages, selectedImages, loadingScenes, isGeneratingAll,
                 isSequentialGenerating, currentSequentialScene,
                 tempSelectedImage, nextReq, editorVars>>

\* onClick={() => setTempSelectedImage(src)} of a modal candidate
SetTempSelectedImage(src) ==
  /\ ModalShown
  /\ ~isSequentialSceneLoading
  /\ src \in Range(sequentialImages)
  /\ tempSelectedImage' = src
  /\ alerted' = {}
  /\ UNCHANGED <<rootVars, storyConfig, intakeVars, pendingReads, uploads,
                 pickerVars,
                 generatedImages, selectedImages, loadingScenes, isGeneratingAll,
                 isSequentialGenerating, currentSequentialScene,
                 sequentialImages, isSequentialSceneLoading, tasks, nextReq,
                 editorVars>>

\* scenes.findIndex(s => s.sceneNumber === n), 1-based; 0 when absent
FindIndex(n) ==
  LET hits == {i \in 1..Len(scenes) : scenes[i].sceneNumber = n}
  IN IF hits = {} THEN 0 ELSE CHOOSE i \in hits : \A j \in hits : i <= j

\* the confirm control as it would be without the check of the selection
ConfirmEnabled_NoSelectionCheck == ~isSequentialSceneLoading

\* if (!tempSelectedImage || currentSequentialScene === null) return, and the
\* disabled attribute of the confirm button
ConfirmEnabled == tempSelectedImage # NoImage /\ ~isSequentialSceneLoading

HandleConfirmAndNext ==
  /\ ModalShown
  /\ ConfirmEnabled
  /\ selectedImages' =
       [selectedImages EXCEPT ![currentSequentialScene] = tempSelectedImage]
  /\ generatedImages' =
       [generatedImages EXCEPT ![currentSequentialScene] = <<tempSelectedImage>>]
  /\ LET currentIndex == FindIndex(currentSequentialScene)
     IN IF currentIndex = Len(scenes)
        THEN /\ isSequentialGenerating' = FALSE
             /\ currentSequentialScene' = 0
             /\ alerted' = {}
             /\ UNCHANGED <<tempSelectedImage, sequentialImages,
                            isSequentialSceneLoading, tasks, nextReq>>
        ELSE /\ currentSequentialScene' = scenes[currentIndex + 1].sceneNumber
             /\ tempSelectedImage' = NoImage
             /\ SeqIssue("confirm", scenes[currentIndex + 1].sceneNumber,
                      tempSelectedImage,
                         sequentialImages)
             /\ UNCHANGED isSequentialGenerating
  /\ UNCHANGED <<rootVars, storyConfig, intakeVars, pendingReads, uploads,
                 pickerVars,
                 loadingScenes, isGeneratingAll, editorVars>>

\* the regeneration as it would be if it passed no previous image
PreviousImage_Undefined(currentIndex) == NoImage

\* let previousImage = undefined; if (currentIndex > 0) previousImage =
\* selectedImages[scenes[currentIndex - 1].sceneNumber]  (1-based here)
PreviousImage(currentIndex) ==
  IF currentIndex > 1
  THEN selectedImages[scenes[currentIndex - 1].sceneNumber]
  ELSE NoImage

HandleSequentialRegenerate ==
  /\ ModalShown
  /\ ~isSequentialSceneLoading
  /\ tempSelectedImage' = NoImage
  /\ LET currentIndex == FindIndex(currentSequentialScene)
     IN SeqIssue("regenerate", scenes[currentIndex].sceneNumber,
                 PreviousImage(currentIndex),
                 <<>>)
  /\ UNCHANGED <<rootVars, storyConfig, intakeVars, pendingReads, uploads,
                 pickerVars,
                 generatedImages, selectedImages, loadingScenes, isGeneratingAll,
                 isSequentialGenerating, currentSequentialScene, editorVars>>

\* the cancel as it would be if it kept the selections
HandleCancelSequential_KeepsSelection ==
  /\ ModalShown
  /\ isSequentialGenerating' = FALSE
  /\ currentSequentialScene' = 0
  /\ generatedImages' = NoImages
  /\ alerted' = {}
  /\ UNCHANGED <<rootVars, storyConfig, intakeVars, pendingReads, uploads,
                 pickerVars, selectedImages,
                 loadingScenes, isGeneratingAll, sequentialImages,
                 tempSelectedImage, isSequentialSceneLoading, tasks, nextReq,
                 editorVars>>

HandleCancelSequential ==
  /\ ModalShown
  /\ isSequentialGenerating' = FALSE
  /\ currentSequentialScene' = 0
  /\ generatedImages' = NoImages
  /\ selectedImages' = NoSelection
  /\ alerted' = {}
  /\ UNCHANGED <<rootVars, storyConfig, intakeVars, pendingReads, uploads,
                 pickerVars,
                 loadingScenes, isGeneratingAll, sequentialImages,
                 tempSelectedImage, isSequentialSceneLoading, tasks, nextReq,
                 editorVars>>

\* handleFileChange of the overview's "change image" input
HandleFileChange(file) ==
  /\ OverviewMounted
  /\ IF ~IsImageType(file.type)
     THEN /\ alerted' = {Msg("errorInvalidImage")}
          /\ UNCHANGED <<pendingReads, uploads>>
     ELSE IF TooLarge(file.size)
     THEN /\ alerted' = {Msg("errorFileSize")}
          /\ UNCHANGED <<pendingReads, uploads>>
     ELSE /\ uploads < MaxUploads
          /\ uploads' = uploads + 1
          /\ pendingReads' = pendingReads \cup {[to |-> "overview", data |-> file.data, id |-> uploads + 1]}
          /\ alerted' = {}
  /\ UNCHANGED <<rootVars, storyConfig, intakeVars, pickerVars, overviewVars,
                 editorVars>>

\* the change as it would be if it left hasReferenceImage alone
HandleReferenceImageChange_ImageOnly(newImage) ==
  /\ storyConfig' = [storyConfig EXCEPT !.referenceImage = newImage]
  /\ RefEffect(newImage)

\* App.handleReferenceImageChange, with the effect it triggers in a mounted
\* PromptOverview
HandleReferenceImageChange(newImage) ==
  /\ storyConfig' = [storyConfig EXCEPT !.referenceImage = newImage,
                                        !.hasReferenceImage = TRUE]
  /\ RefEffect(newImage)

\* reader.onload of a read started by the overview
OverviewReaderOnload(r) ==
  /\ r \in pendingReads
  /\ r.to = "overview"
  /\ pendingReads' = pendingReads \ {r}
  /\ HandleReferenceImageChange(r.data)
  /\ EditorOnMount(r.data)
  /\ alerted' = {}
  /\ UNCHANGED <<rootVars, intakeVars, uploads, pickerVars, loadingScenes,
                 isGeneratingAll, seqVars, tasks, nextReq, editReq>>

\* reader.onerror of a read started by the overview
OverviewReaderOnerror(r) ==
  /\ r \in pendingReads
  /\ r.to = "overview"
  /\ pendingReads' = pendingReads \ {r}
  /\ alerted' = {Msg("errorFileRead")}
  /\ UNCHANGED <<rootVars, storyConfig, intakeVars, uploads, pickerVars,
                 overviewVars, editorVars>>

\* ------------------------------------------------------------- StoryIdeaGenerator
\* The component of src/unnamed/part_002, with its config state held by App
\* (the config / onConfigChange props App.tsx passes) and its onNext handing
\* the scene list to App.handleIdeaSubmit.

\* texts a user types into the idea field, and texts the model returns
IdeaInputs == {<<>>, <<" ">>, <<" ", "a">>}
BrainstormTexts == {<<"b", " ">>, <<" ">>}
ConfigInputs ==
  [field : {"idea"}, value : IdeaInputs] \cup
  [field : {"videoType"}, value : {"loop", "story"}] \cup
  [field : {"videoLength"}, value : {"10s", "30s", "60s"}]

\* progress is counted in units of 1/ProgressScale percent, the unit in
\* which the three increments 19/30, 19/50 and 19/70 are whole numbers
ProgressScale == 30 * 35
Percent(n) == n * ProgressScale
durationMap(videoLength) ==
  CASE videoLength = "10s" -> 15000
    [] videoLength = "30s" -> 25000
    [] videoLength = "60s" -> 35000
intervalTime == 100
totalDuration(config) ==
  IF config.videoType = "loop" THEN durationMap("10s")
  ELSE durationMap(config.videoLength)
increment(config) == Percent(95) \div (totalDuration(config) \div intervalTime)

\* a prompt version, the falsy array entry, and the placeholder
PromptA == [chinese_prompt |-> "zhA", english_prompt |-> "enA"]
PromptB == [chinese_prompt |-> "zhB", english_prompt |-> "enB"]
NullPrompt == [chinese_prompt |-> "null", english_prompt |-> "null"]
MissingPrompt ==
  [chinese_prompt |-> "Error: Missing prompt (zh)",
   english_prompt |-> "Error: Missing prompt"]

\* a value of scene.image_prompts / scene.image_to_video_prompts in the
\* parsed response: an array, or anything else
NotArray == [isArray |-> FALSE, items |-> <<>>]
Arr(items) == [isArray |-> TRUE, items |-> items]
RawScene(n, text, img, vid) ==
  [scene_number |-> n, story_content |-> text, image_prompts |-> img,
   image_to_video_prompts |-> vid]
RawScenes ==
  {RawScene(1, "s1", Arr(<<PromptA, PromptB>>), Arr(<<PromptB, PromptA>>)),
   RawScene(2, "s2", Arr(<<PromptA>>), Arr(<<NullPrompt, PromptB>>)),
   RawScene(7, "s7", NotArray, Arr(<<>>)),
   RawScene(3, "s3", Arr(<<PromptB, PromptA, PromptA>>), NotArray)}
\* the parsed arrays of at most NumScenes entries
ParsedResponses ==
  UNION {[1..k -> RawScenes] : k \in 0..NumScenes}
\* what the structured generation call comes back with: a rejection, a text
\* that JSON.parse or the mapping throws on, or a parsed array
StoryResults ==
  {[kind |-> "rejected", scenes |-> <<>>], [kind |-> "malformed", scenes |-> <<>>]}
  \cup {[kind |-> "array", scenes |-> r] : r \in ParsedResponses}

\* Array.isArray(x) ? x : []
ArrayOrEmpty(x) == IF x.isArray THEN x.items ELSE <<>>
\* the variant as it would be without the placeholder
VersionOr_NoPlaceholder(prompts, k) ==
  IF k <= Len(prompts) THEN prompts[k] ELSE NullPrompt
\* prompts[k] || { chinese_prompt: ..., english_prompt: 'Error: Missing prompt' }
\* for the 1-based k
VersionOr(prompts, k) ==
  IF k <= Len(prompts) /\ prompts[k] # NullPrompt THEN prompts[k]
  ELSE MissingPrompt
PromptVersions(prompts) == <<VersionOr(prompts, 1), VersionOr(prompts, 2)>>

\* parsedScenes.map((scene, index) => ...); id is Date.now() + index, kept
\* as the index
scenesWithState(parsedScenes) ==
  [i \in 1..Len(parsedScenes) |->
     [id |-> i - 1,
      scene_number |-> parsedScenes[i].scene_number,
      story_content |-> parsedScenes[i].story_content,
      image_prompts |->
        PromptVersions(ArrayOrEmpty(parsedScenes[i].image_prompts)),
      image_to_video_prompts |->
        PromptVersions(ArrayOrEmpty(parsedScenes[i].image_to_video_prompts)),
      selected_image_prompt_index |-> 0,
      selected_video_prompt_index |-> 0]]

HandleInputChange(field, value) ==
  /\ IntakeMounted
  /\ ~isGenerating
  /\ storyConfig' = [storyConfig EXCEPT ![field] = value]
  /\ alerted' = {}
  /\ UNCHANGED <<rootVars, intakeVars, pendingReads, uploads, pickerVars,
                 overviewVars, editorVars>>

\* handleFile, called by handleImageUpload and handleDrop
HandleFile(file) ==
  /\ IntakeMounted
  /\ ~isGenerating
  /\ IF ~IsImageType(file.type)
     THEN /\ error' = Msg("errorInvalidImage")
          /\ UNCHANGED <<pendingReads, uploads>>
     ELSE IF TooLarge(file.size)
     THEN /\ error' = Msg("errorFileSize")
          /\ UNCHANGED <<pendingReads, uploads>>
     ELSE /\ uploads < MaxUploads
          /\ uploads' = uploads + 1
          /\ pendingReads' =
               pendingReads \cup {[to |-> "intake", data |-> file.data, id |-> uploads + 1]}
          /\ UNCHANGED error
  /\ alerted' = {}
  /\ UNCHANGED <<rootVars, storyConfig, isBrainstorming, isGenerating, progress,
                 progressInterval, brainstormReq, storyReq, pendingNext,
                 pickerVars, overviewVars, editorVars>>

\* reader.onload of a read started by the intake; the state setters of an
\* unmounted component do nothing
IntakeReaderOnload(r) ==
  /\ r \in pendingReads
  /\ r.to = "intake"
  /\ pendingReads' = pendingReads \ {r}
  /\ IF IntakeMounted
     THEN /\ storyConfig' = [storyConfig EXCEPT !.referenceImage = r.data,
                                                !.hasReferenceImage = TRUE]
          /\ error' = NoError
          /\ EditorOnMount(r.data)
     ELSE UNCHANGED <<storyConfig, error, currentImage, editPrompt,
                      editGenerating, results>>
  /\ alerted' = {}
  /\ UNCHANGED <<rootVars, isBrainstorming, isGenerating, progress,
                 progressInterval, brainstormReq, storyReq, pendingNext, uploads,
                 pickerVars, overviewVars, editReq>>

IntakeReaderOnerror(r) ==
  /\ r \in pendingReads
  /\ r.to = "intake"
  /\ pendingReads' = pendingReads \ {r}
  /\ error' = IF IntakeMounted THEN Msg("errorFileRead") ELSE error
  /\ alerted' = {}
  /\ UNCHANGED <<rootVars, storyConfig, isBrainstorming, isGenerating, progress,
                 progressInterval, brainstormReq, storyReq, pendingNext, uploads,
                 pickerVars, overviewVars, editorVars>>

HandleBrainstorm ==
  /\ IntakeMounted
  /\ ~isBrainstorming
  /\ ~isGenerating
  /\ IF ~getAi
     THEN /\ alerted' = {MsgApiKey}
          /\ error' = Msg("errorAiInit")
          /\ UNCHANGED <<isBrainstorming, brainstormReq>>
     ELSE /\ isBrainstorming' = TRUE
          /\ error' = NoError
          /\ brainstormReq' = TRUE
          /\ alerted' = {}
  /\ UNCHANGED <<rootVars, storyConfig, isGenerating, progress, progressInterval,
                 storyReq, pendingNext, pendingReads, uploads, pickerVars,
                 overviewVars, editorVars>>

\* the return as it would be if it stored the text as it came
BrainstormReturns_RawText(res) ==
  /\ brainstormReq
  /\ brainstormReq' = FALSE
  /\ IF IntakeMounted
     THEN /\ storyConfig' =
               IF res.ok THEN [storyConfig EXCEPT !.idea = res.text]
               ELSE storyConfig
          /\ error' = IF res.ok THEN error ELSE Msg("brainstormError")
          /\ isBrainstorming' = FALSE
     ELSE UNCHANGED <<storyConfig, error, isBrainstorming>>
  /\ alerted' = {}
  /\ UNCHANGED <<rootVars, isGenerating, progress, progressInterval, storyReq,
                 pendingNext, pendingReads, uploads, pickerVars, overviewVars,
                 editorVars>>

\* the text generation call of handleBrainstorm returns: res.ok with the
\* text, or not res.ok when the call fails or carries no text
BrainstormReturns(res) ==
  /\ brainstormReq
  /\ brainstormReq' = FALSE
  /\ IF IntakeMounted
     THEN /\ storyConfig' =
               IF res.ok THEN [storyConfig EXCEPT !.idea = Trim(res.text)]
               ELSE storyConfig
          /\ error' = IF res.ok THEN error ELSE Msg("brainstormError")
          /\ isBrainstorming' = FALSE
     ELSE UNCHANGED <<storyConfig, error, isBrainstorming>>
  /\ alerted' = {}
  /\ UNCHANGED <<rootVars, isGenerating, progress, progressInterval, storyReq,
                 pendingNext, pendingReads, uploads, pickerVars, overviewVars,
                 editorVars>>

\* handleGenerateStoryAndPrompts up to its await
HandleGenerateStoryAndPrompts ==
  /\ progress' = 0
  /\ IF ~getAi
     THEN /\ alerted' = {MsgApiKey}
          /\ error' = Msg("errorAiInit")
          /\ isGenerating' = FALSE
          /\ UNCHANGED <<progressInterval, storyReq>>
     ELSE /\ isGenerating' = TRUE
          /\ error' = NoError
          /\ progressInterval' = TRUE
          /\ storyReq' = Some([config |-> storyConfig,
                               increment |-> increment(storyConfig)])
          /\ alerted' = {}

\* the idea check as it would be without the trim
IdeaMissing_NoTrim(config) == config.idea = <<>>
\* !config.idea.trim()
IdeaMissing(config) == Trim(config.idea) = <<>>

\* the submit as it would be without the check of the reference image
HandleSubmit_NoImageCheck ==
  /\ IntakeMounted
  /\ ~isGenerating
  /\ IF IdeaMissing(storyConfig)
     THEN /\ error' = Msg("errorStoryDescription")
          /\ alerted' = {}
          /\ UNCHANGED <<isGenerating, progress, progressInterval, storyReq>>
     ELSE HandleGenerateStoryAndPrompts
  /\ UNCHANGED <<rootVars, storyConfig, isBrainstorming, brainstormReq,
                 pendingNext, pendingReads, uploads, pickerVars, overviewVars,
                 editorVars>>

HandleSubmit ==
  /\ IntakeMounted
  /\ ~isGenerating
  /\ IF IdeaMissing(storyConfig)
     THEN /\ error' = Msg("errorStoryDescription")
          /\ alerted' = {}
          /\ UNCHANGED <<isGenerating, progress, progressInterval, storyReq>>
     ELSE IF ~storyConfig.hasReferenceImage
     THEN /\ error' = Msg("errorNoReferenceImage")
          /\ alerted' = {}
          /\ UNCHANGED <<isGenerating, progress, progressInterval, storyReq>>
     ELSE HandleGenerateStoryAndPrompts
  /\ UNCHANGED <<rootVars, storyConfig, isBrainstorming, brainstormReq,
                 pendingNext, pendingReads, uploads, pickerVars, overviewVars,
                 editorVars>>

\* the callback of the progress interval
ProgressTick ==
  /\ progressInterval
  /\ LET nextVal == progress + storyReq[1].increment
     IN IF nextVal >= Percent(95)
        THEN /\ progressInterval' = FALSE
             /\ progress' = Percent(95)
        ELSE /\ progress' = nextVal
             /\ UNCHANGED progressInterval
  /\ alerted' = {}
  /\ UNCHANGED <<rootVars, storyConfig, error, isBrainstorming, isGenerating,
                 brainstormReq, storyReq, pendingNext, pendingReads, uploads,
                 pickerVars, overviewVars, editorVars>>

\* the return as it would be if a rejected call completed the progress too
StoryReturns_RejectedCompletes(res) ==
  /\ storyReq # Null
  /\ res \in StoryResults
  /\ storyReq' = Null
  /\ progressInterval' = FALSE
  /\ progress' = Percent(100)
  /\ IF res.kind = "array"
     THEN /\ pendingNext' = Some(scenesWithState(res.scenes))
          /\ UNCHANGED <<error, isGenerating>>
     ELSE /\ error' = Msg("errorPromptGeneration")
          /\ isGenerating' = FALSE
          /\ UNCHANGED pendingNext
  /\ alerted' = {}
  /\ UNCHANGED <<rootVars, storyConfig, isBrainstorming, brainstormReq,
                 pendingReads, uploads, pickerVars, overviewVars, editorVars>>

\* the return as it would be if the catch block left isGenerating set
StoryReturns_KeepsGenerating(res) ==
  /\ storyReq # Null
  /\ res \in StoryResults
  /\ storyReq' = Null
  /\ progressInterval' = FALSE
  /\ progress' = IF res.kind = "rejected" THEN progress ELSE Percent(100)
  /\ IF res.kind = "array"
     THEN /\ pendingNext' = Some(scenesWithState(res.scenes))
          /\ UNCHANGED <<error, isGenerating>>
     ELSE /\ error' = Msg("errorPromptGeneration")
          /\ UNCHANGED <<pendingNext, isGenerating>>
  /\ alerted' = {}
  /\ UNCHANGED <<rootVars, storyConfig, isBrainstorming, brainstormReq,
                 pendingReads, uploads, pickerVars, overviewVars, editorVars>>

\* the structured generation call returns
StoryReturns(res) ==
  /\ storyReq # Null
  /\ res \in StoryResults
  /\ storyReq' = Null
  /\ progressInterval' = FALSE
  /\ progress' = IF res.kind = "rejected" THEN progress ELSE Percent(100)
  /\ IF res.kind = "array"
     THEN /\ pendingNext' = Some(scenesWithState(res.scenes))
          /\ UNCHANGED <<error, isGenerating>>
     ELSE /\ error' = Msg("errorPromptGeneration")
          /\ isGenerating' = FALSE
          /\ UNCHANGED pendingNext
  /\ alerted' = {}
  /\ UNCHANGED <<rootVars, storyConfig, isBrainstorming, brainstormReq,
                 pendingReads, uploads, pickerVars, overviewVars, editorVars>>

\* the hand-over as it would be if it went to the overview step
HandleIdeaSubmit_ToOverview(scenesIn) ==
  /\ generatedScenes' = Some(scenesIn)
  /\ appStep' = "overview"
  /\ storyScenes' = scenesIn
  /\ currentSceneIndex' = 0

\* App.handleIdeaSubmit, which mounts the StoryGenerator on the scene list
HandleIdeaSubmit(scenesIn) ==
  /\ generatedScenes' = Some(scenesIn)
  /\ appStep' = "generator"
  /\ storyScenes' = scenesIn
  /\ currentSceneIndex' = 0

\* the 500 ms timeout set after a successful response
NextTimeout ==
  /\ pendingNext # Null
  /\ pendingNext' = Null
  /\ isGenerating' = FALSE
  /\ HandleIdeaSubmit(pendingNext[1])
  /\ alerted' = {}
  /\ UNCHANGED <<overviewData, isEditingImage, apiKey, storyConfig, error,
                 isBrainstorming, progress, progressInterval, brainstormReq,
                 storyReq, pendingReads, uploads, overviewVars, editorVars>>

\* ------------------------------------------------------------- StoryGenerator
\* changeScene as it would be without the test of the upper end
ChangeScene_NoUpperTest(newIndex) ==
  /\ PickerMounted
  /\ Len(storyScenes) > 0
  /\ currentSceneIndex' = IF newIndex >= 0 THEN newIndex ELSE currentSceneIndex
  /\ alerted' = {}
  /\ UNCHANGED <<rootVars, storyConfig, intakeVars, pendingReads, uploads,
                 storyScenes, overviewVars, editorVars>>

\* changeScene; the buttons call it with currentSceneIndex - 1 and + 1
ChangeScene(newIndex) ==
  /\ PickerMounted
  /\ Len(storyScenes) > 0
  /\ currentSceneIndex' =
       IF newIndex >= 0 /\ newIndex < Len(storyScenes) THEN newIndex
       ELSE currentSceneIndex
  /\ alerted' = {}
  /\ UNCHANGED <<rootVars, storyConfig, intakeVars, pendingReads, uploads,
                 storyScenes, overviewVars, editorVars>>

\* the selection as it would be if it set the index of both axes
SelectIn_BothAxes(s, type, index) ==
  [s EXCEPT !.selected_image_prompt_index = index,
            !.selected_video_prompt_index = index]
\* the selection as it would be if it stored the 1-based position of the card
SelectIn_OneBased(s, type, index) ==
  IF type = "image" THEN [s EXCEPT !.selected_image_prompt_index = index + 1]
  ELSE [s EXCEPT !.selected_video_prompt_index = index + 1]
\* { ...s, selected_image_prompt_index: index } and its video counterpart
SelectIn(s, type, index) ==
  IF type = "image" THEN [s EXCEPT !.selected_image_prompt_index = index]
  ELSE [s EXCEPT !.selected_video_prompt_index = index]

HandleSelectionChange(type, index) ==
  /\ PickerMounted
  /\ Len(storyScenes) > 0
  /\ storyScenes' =
       [i \in 1..Len(storyScenes) |->
          IF i - 1 = currentSceneIndex THEN SelectIn(storyScenes[i], type, index)
          ELSE storyScenes[i]]
  /\ alerted' = {}
  /\ UNCHANGED <<rootVars, storyConfig, intakeVars, pendingReads, uploads,
                 currentSceneIndex, overviewVars, editorVars>>

\* the overview entries as they would be if they kept the scene numbers of
\* the response
SceneOverviews_ResponseNumbers(list) ==
  [i \in 1..Len(list) |->
     [sceneNumber |-> list[i].scene_number,
      storyContent |-> list[i].story_content,
      imagePrompt |->
        list[i].image_prompts[list[i].selected_image_prompt_index + 1].english_prompt,
      videoPrompt |->
        list[i].image_to_video_prompts[list[i].selected_video_prompt_index + 1].english_prompt]]

\* the overview entries as they would be if they took the first variant of
\* every prompt
SceneOverviews_FirstVariant(list) ==
  [i \in 1..Len(list) |->
     [sceneNumber |-> i,
      storyContent |-> list[i].story_content,
      imagePrompt |-> list[i].image_prompts[1].english_prompt,
      videoPrompt |-> list[i].image_to_video_prompts[1].english_prompt]]

\* handleFinishSelectionClick with App.handleFinishSelection: the overview
\* entries of the chosen prompts; PromptOverview mounts on them
SceneOverviews(list) ==
  [i \in 1..Len(list) |->
     [sceneNumber |-> i,
      storyContent |-> list[i].story_content,
      imagePrompt |->
        list[i].image_prompts[list[i].selected_image_prompt_index + 1].english_prompt,
      videoPrompt |->
        list[i].image_to_video_prompts[list[i].selected_video_prompt_index + 1].english_prompt]]

\* the finish as it would be if the view of an empty list offered it
HandleFinishSelectionClick_InEmptyView ==
  /\ PickerMounted
  /\ Len(storyScenes) = 0 \/ currentSceneIndex = Len(storyScenes) - 1
  /\ overviewData' = Some(SceneOverviews(storyScenes))
  /\ appStep' = "overview"
  /\ alerted' = {}
  /\ UNCHANGED <<generatedScenes, isEditingImage, apiKey, storyConfig, intakeVars,
                 pendingReads, uploads, pickerVars, overviewVars, editorVars>>

HandleFinishSelectionClick ==
  /\ PickerMounted
  /\ Len(storyScenes) > 0
  /\ currentSceneIndex = Len(storyScenes) - 1
  /\ overviewData' = Some(SceneOverviews(storyScenes))
  /\ appStep' = "overview"
  /\ alerted' = {}
  /\ UNCHANGED <<generatedScenes, isEditingImage, apiKey, storyConfig, intakeVars,
                 pendingReads, uploads, pickerVars, overviewVars, editorVars>>

\* onBack={() => setAppStep('idea')}: a new StoryIdeaGenerator mounts
PickerBack ==
  /\ PickerMounted
  /\ appStep' = "idea"
  /\ error' = NoError
  /\ isBrainstorming' = FALSE
  /\ isGenerating' = FALSE
  /\ progress' = 0
  /\ alerted' = {}
  /\ UNCHANGED <<generatedScenes, overviewData, isEditingImage, apiKey,
                 storyConfig, progressInterval, brainstormReq, storyReq,
                 pendingNext, pendingReads, uploads, pickerVars, overviewVars,
                 editorVars>>

\* ------------------------------------------------------------- ImageEditor
EditPrompts == {<<>>, <<" ">>, <<"p">>}
\* the image call c of an edit returns when the model answers with an image
EditResult(c) == IF c = 1 THEN "editA" ELSE "editB"

\* onEditImageStart of the overview: the overlay replaces the PromptOverview,
\* whose state is dropped and whose running handlers lose their component
EditImageStart ==
  /\ OverviewMounted
  /\ isEditingImage' = TRUE
  /\ IF storyConfig.referenceImage # NoRef
     THEN /\ generatedImages' = NoImages
          /\ selectedImages' = NoSelection
          /\ loadingScenes' = NotLoading
          /\ isGeneratingAll' = FALSE
          /\ isSequentialGenerating' = FALSE
          /\ currentSequentialScene' = 0
          /\ sequentialImages' = <<>>
          /\ tempSelectedImage' = NoImage
          /\ isSequentialSceneLoading' = FALSE
          /\ tasks' = {[t EXCEPT !.live = FALSE] : t \in tasks}
          /\ currentImage' = storyConfig.referenceImage
          /\ editPrompt' = <<>>
          /\ editGenerating' = FALSE
          /\ results' = <<>>
          /\ UNCHANGED <<nextReq, editReq>>
     ELSE UNCHANGED <<overviewVars, editorVars>>
  /\ alerted' = {}
  /\ UNCHANGED <<appStep, generatedScenes, overviewData, apiKey, storyConfig,
                 intakeVars, pendingReads, uploads, pickerVars>>

SetPrompt(value) ==
  /\ EditorShown
  /\ editPrompt' = value
  /\ alerted' = {}
  /\ UNCHANGED <<rootVars, storyConfig, intakeVars, pendingReads, uploads,
                 pickerVars, overviewVars, currentImage, editGenerating, results,
                 editReq>>

\* handleGenerate of the editor up to its Promise.all
EditorHandleGenerate ==
  /\ EditorShown
  /\ ~editGenerating
  /\ Trim(editPrompt) # <<>>
  /\ IF ~getAi
     THEN /\ alerted' = {MsgApiKey, Msg("errorAiInit")}
          /\ UNCHANGED <<editGenerating, results, editReq>>
     ELSE /\ editGenerating' = TRUE
          /\ results' = <<>>
          /\ editReq' = editReq \cup {[live |-> TRUE]}
          /\ alerted' = {}
  /\ UNCHANGED <<rootVars, storyConfig, intakeVars, pendingReads, uploads,
                 pickerVars, overviewVars, currentImage, editPrompt>>

\* the outcome of an edit call whose generateContent rejects or whose
\* response has no candidates to read
Thrown == "thrown"
\* the outcomes of edit call c: an image, null, a throw
EditOutcomes(c) == {EditResult(c), NoRef, Thrown}
\* [res1, res2].filter(res => res !== null)
ValidResults(res1, res2) == SelectSeq(<<res1, res2>>, LAMBDA u : u # NoRef)
\* the alert of the catch block: the message of the call that threw, or of
\* the throw for an empty validResults
EditAlert(res1, res2) ==
  IF Thrown \in {res1, res2} THEN {Msg("Error generating edits: call failed")}
  ELSE IF ValidResults(res1, res2) = <<>>
  THEN {Msg("Error generating edits: AI failed to generate images.")}
  ELSE {}

\* the return as it would be if a throw of one call let the result of the
\* other through
EditReturns_PartialOnThrow(r, res1, res2) ==
  /\ r \in editReq
  /\ res1 \in EditOutcomes(1)
  /\ res2 \in EditOutcomes(2)
  /\ editReq' = editReq \ {r}
  /\ alerted' = EditAlert(res1, res2)
  /\ LET kept == SelectSeq(<<res1, res2>>, LAMBDA u : u \notin {NoRef, Thrown})
     IN results' = IF r.live /\ kept # <<>> THEN kept ELSE results
  /\ editGenerating' = IF r.live THEN FALSE ELSE editGenerating
  /\ UNCHANGED <<rootVars, storyConfig, intakeVars, pendingReads, uploads,
                 pickerVars, overviewVars, currentImage, editPrompt>>

\* the Promise.all of the two edit calls has settled
EditReturns(r, res1, res2) ==
  /\ r \in editReq
  /\ res1 \in EditOutcomes(1)
  /\ res2 \in EditOutcomes(2)
  /\ editReq' = editReq \ {r}
  /\ alerted' = EditAlert(res1, res2)
  /\ results' = IF r.live /\ EditAlert(res1, res2) = {}
                THEN ValidResults(res1, res2)
                ELSE results
  /\ editGenerating' = IF r.live THEN FALSE ELSE editGenerating
  /\ UNCHANGED <<rootVars, storyConfig, intakeVars, pendingReads, uploads,
                 pickerVars, overviewVars, currentImage, editPrompt>>

\* the finish as it would be without the test of newImage
HandleEditImageFinish_NoNullTest(newImage) ==
  /\ storyConfig' = [storyConfig EXCEPT !.referenceImage = newImage,
                                        !.hasReferenceImage = TRUE]
  /\ isEditingImage' = FALSE
  /\ editReq' = {[r EXCEPT !.live = FALSE] : r \in editReq}
  /\ alerted' = {}
  /\ UNCHANGED <<appStep, generatedScenes, overviewData, apiKey, intakeVars,
                 pendingReads, uploads, pickerVars, overviewVars, currentImage,
                 editPrompt, editGenerating, results>>

\* App.handleEditImageFinish: the overlay closes and the step view mounts
\* anew (a PromptOverview was reset when it was replaced; a StoryIdeaGenerator
\* is constructed here)
HandleEditImageFinish(newImage) ==
  /\ storyConfig' =
       IF newImage # NoRef
       THEN [storyConfig EXCEPT !.referenceImage = newImage,
                                !.hasReferenceImage = TRUE]
       ELSE storyConfig
  /\ isEditingImage' = FALSE
  /\ editReq' = {[r EXCEPT !.live = FALSE] : r \in editReq}
  /\ IF StepViewIsIntake
     THEN /\ error' = NoError
          /\ isBrainstorming' = FALSE
          /\ isGenerating' = FALSE
          /\ progress' = 0
     ELSE UNCHANGED <<error, isBrainstorming, isGenerating, progress>>
  /\ alerted' = {}
  /\ UNCHANGED <<appStep, generatedScenes, overviewData, apiKey,
                 progressInterval, brainstormReq, storyReq, pendingNext,
                 pendingReads, uploads, pickerVars, overviewVars, currentImage,
                 editPrompt, editGenerating, results>>

\* handleSelectResult
HandleSelectResult(image, finish) ==
  /\ EditorShown
  /\ image \in Range(results)
  /\ IF finish
     THEN HandleEditImageFinish(image)
     ELSE /\ currentImage' = image
          /\ results' = <<>>
          /\ alerted' = {}
          /\ UNCHANGED <<rootVars, storyConfig, intakeVars, pendingReads, uploads,
                         pickerVars, overviewVars, editPrompt, editGenerating,
                         editReq>>

\* the cancel button: onFinish(null)
EditorCancel ==
  /\ EditorShown
  /\ HandleEditImageFinish(NoRef)

\* App.handleNewStory, the header button shown while appStep is 'overview':
\* the overview or the editor unmounts and a new StoryIdeaGenerator mounts
HandleNewStory ==
  /\ appStep = "overview"
  /\ storyConfig' = initialStoryConfig
  /\ overviewData' = Null
  /\ generatedScenes' = Null
  /\ appStep' = "idea"
  /\ generatedImages' = NoImages
  /\ selectedImages' = NoSelection
  /\ loadingScenes' = NotLoading
  /\ isGeneratingAll' = FALSE
  /\ isSequentialGenerating' = FALSE
  /\ currentSequentialScene' = 0
  /\ sequentialImages' = <<>>
  /\ tempSelectedImage' = NoImage
  /\ isSequentialSceneLoading' = FALSE
  /\ tasks' = {[t EXCEPT !.live = FALSE] : t \in tasks}
  /\ editReq' = {[r EXCEPT !.live = FALSE] : r \in editReq}
  /\ error' = NoError
  /\ isBrainstorming' = FALSE
  /\ isGenerating' = FALSE
  /\ progress' = 0
  /\ alerted' = {}
  /\ UNCHANGED <<isEditingImage, apiKey, progressInterval, brainstormReq,
                 storyReq, pendingNext, pendingReads, uploads, pickerVars,
                 nextReq, currentImage, editPrompt, editGenerating, results>>

\* ------------------------------------------------------------- specifications
\* the local state of every component as its useState calls construct it
Constructed ==
  /\ isEditingImage = FALSE
  /\ error = NoError
  /\ isBrainstorming = FALSE
  /\ isGenerating = FALSE
  /\ progress = 0
  /\ progressInterval = FALSE
  /\ brainstormReq = FALSE
  /\ storyReq = Null
  /\ pendingNext = Null
  /\ pendingReads = {}
  /\ uploads = 0
  /\ currentSceneIndex = 0
  /\ generatedImages = NoImages
  /\ selectedImages = NoSelection
  /\ loadingScenes = NotLoading
  /\ isGeneratingAll = FALSE
  /\ isSequentialGenerating = FALSE
  /\ currentSequentialScene = 0
  /\ sequentialImages = <<>>
  /\ tempSelectedImage = NoImage
  /\ isSequentialSceneLoading = FALSE
  /\ tasks = {}
  /\ nextReq = 1
  /\ currentImage = NoRef
  /\ editPrompt = <<>>
  /\ editGenerating = FALSE
  /\ results = <<>>
  /\ editReq = {}
  /\ alerted = {}

\* a story configuration that passed handleSubmit
SubmittedConfig ==
  [initialStoryConfig EXCEPT !.idea = <<"a">>, !.hasReferenceImage = TRUE,
                             !.referenceImage = "refA"]

\* a response of NumScenes complete scenes, and the scene list made of it
TypicalResponse ==
  [i \in 1..NumScenes |->
     RawScene(i, "story", Arr(<<PromptA, PromptB>>), Arr(<<PromptB, PromptA>>))]
TypicalScenes == scenesWithState(TypicalResponse)

\* the application as App constructs it: the idea step, with or without the
\* credential in the environment
InitIntake ==
  /\ Constructed
  /\ appStep = "idea"
  /\ storyConfig = initialStoryConfig
  /\ generatedScenes = Null
  /\ overviewData = Null
  /\ storyScenes = <<>>
  /\ apiKey \in BOOLEAN

\* StoryGenerator as it is mounted by handleIdeaSubmit on a scene list
InitPicker ==
  /\ Constructed
  /\ appStep = "generator"
  /\ storyConfig = SubmittedConfig
  /\ generatedScenes \in {Some(scenesWithState(r)) : r \in ParsedResponses}
  /\ overviewData = Null
  /\ storyScenes = generatedScenes[1]
  /\ apiKey = TRUE

\* PromptOverview as it is mounted after the picker's finish: a reference
\* image is present (handleSubmit requires it), nothing is generated
OverviewEntered ==
  /\ Constructed
  /\ appStep = "overview"
  /\ storyConfig = SubmittedConfig
  /\ generatedScenes = Some(TypicalScenes)
  /\ overviewData = Some(SceneOverviews(TypicalScenes))
  /\ storyScenes = TypicalScenes

InitOverview == OverviewEntered /\ apiKey = TRUE

\* the idea step, and the overview step given a getAi that returns null, in
\* an environment without the credential
InitNoKey ==
  /\ apiKey = FALSE
  /\ \/ InitIntake
     \/ OverviewEntered

DoHandleGenerate == \E n \in AllScenes : HandleGenerate(n)
DoGenFirstReturns ==
  \E t \in tasks : \E res \in {GenResult(t, 1), NoImage} : GenFirstReturns(t, res)
DoGenSecondReturns ==
  \E t \in tasks : \E res \in {GenResult(t, 2), NoImage} : GenSecondReturns(t, res)
DoHandleSelectImage ==
  \E n \in AllScenes : \E src \in Range(generatedImages[n]) : HandleSelectImage(n, src)
DoSeqCallsReturn ==
  \E t \in tasks : \E res1 \in {GenResult(t, 1), NoImage} :
    \E res2 \in {GenResult(t, 2), NoImage} : SeqCallsReturn(t, res1, res2)
DoSetTempSelectedImage ==
  \E src \in Range(sequentialImages) : SetTempSelectedImage(src)
DoHandleFileChange == \E file \in Files : HandleFileChange(file)
DoOverviewReaderOnload == \E r \in pendingReads : OverviewReaderOnload(r)
DoOverviewReaderOnerror == \E r \in pendingReads : OverviewReaderOnerror(r)

DoHandleInputChange ==
  \E c \in ConfigInputs : HandleInputChange(c.field, c.value)
DoHandleFile == \E file \in Files : HandleFile(file)
DoIntakeReaderOnload == \E r \in pendingReads : IntakeReaderOnload(r)
DoIntakeReaderOnerror == \E r \in pendingReads : IntakeReaderOnerror(r)
DoBrainstormReturns ==
  \E res \in [ok : {TRUE}, text : BrainstormTexts] \cup {[ok |-> FALSE, text |-> <<>>]} :
    BrainstormReturns(res)
DoStoryReturns == \E res \in StoryResults : StoryReturns(res)
DoChangeScene == \E newIndex \in -1..Len(storyScenes) : ChangeScene(newIndex)
DoHandleSelectionChange ==
  \E type \in {"image", "video"} : \E index \in {0, 1} :
    HandleSelectionChange(type, index)
DoSetPrompt == \E value \in EditPrompts : SetPrompt(value)
DoEditReturns ==
  \E r \in editReq : \E res1 \in EditOutcomes(1) :
    \E res2 \in EditOutcomes(2) : EditReturns(r, res1, res2)
DoHandleSelectResult ==
  \E image \in Range(results) : \E finish \in BOOLEAN :
    HandleSelectResult(image, finish)

NextIntake ==
  \/ DoHandleInputChange
  \/ DoHandleFile
  \/ DoIntakeReaderOnload
  \/ DoIntakeReaderOnerror
  \/ HandleBrainstorm
  \/ DoBrainstormReturns
  \/ HandleSubmit
  \/ ProgressTick
  \/ DoStoryReturns
  \/ NextTimeout

NextPicker ==
  \/ DoChangeScene
  \/ DoHandleSelectionChange
  \/ HandleFinishSelectionClick
  \/ PickerBack

NextSequential ==
  \/ HandleStartSequential
  \/ DoSeqCallsReturn
  \/ DoSetTempSelectedImage
  \/ HandleConfirmAndNext
  \/ HandleSequentialRegenerate
  \/ HandleCancelSequential

NextSingle ==
  \/ DoHandleGenerate
  \/ DoGenFirstReturns
  \/ DoGenSecondReturns
  \/ DoHandleSelectImage

NextPerScene ==
  \/ NextSingle
  \/ HandleGenerateAll

NextOverview ==
  \/ NextPerScene
  \/ NextSequential
  \/ DoHandleFileChange
  \/ DoOverviewReaderOnload
  \/ DoOverviewReaderOnerror

\* the overview step on its own
SpecOverview == InitOverview /\ [][NextOverview]_vars

\* the sequential mode on its own: start, select, confirm, regenerate, cancel
\* and the responses of its calls
SpecSequential == InitOverview /\ [][NextSequential]_vars

\* the per-scene generate, regenerate and select controls on their own
SpecSingle == InitOverview /\ [][NextSingle]_vars

\* per-scene and bulk generation on their own
SpecPerScene == InitOverview /\ [][NextPerScene]_vars

\* the steps of the application: the inputs and the submit of the idea step,
\* the picker, and the way back from the overview
InitApp == InitIntake /\ apiKey = TRUE
NextApp ==
  \/ DoHandleInputChange
  \/ DoHandleFile
  \/ DoIntakeReaderOnload
  \/ HandleSubmit
  \/ DoStoryReturns
  \/ NextTimeout
  \/ NextPicker
  \/ HandleNewStory

SpecApp == InitApp /\ [][NextApp]_vars

\* the image editor over the overview: open, prompt, generate, continue with
\* a result, finish with a result, cancel
NextEditor ==
  \/ EditImageStart
  \/ DoSetPrompt
  \/ EditorHandleGenerate
  \/ DoEditReturns
  \/ DoHandleSelectResult
  \/ EditorCancel

SpecEditor == InitOverview /\ [][NextEditor]_vars

\* the idea intake on its own, up to the hand-over of the scene list
SpecIntake == InitIntake /\ [][NextIntake]_vars

\* the prompt picker on its own
SpecPicker == InitPicker /\ [][NextPicker]_vars

\* the two upload controls, each in its component, next to the per-scene
\* controls that fill the overview
InitUploads == InitIntake \/ InitOverview
NextUploads ==
  \/ DoHandleInputChange
  \/ DoHandleFile
  \/ DoIntakeReaderOnload
  \/ DoIntakeReaderOnerror
  \/ NextSingle
  \/ DoHandleFileChange
  \/ DoOverviewReaderOnload
  \/ DoOverviewReaderOnerror

SpecUploads == InitUploads /\ [][NextUploads]_vars

\* the life of the reference image: the upload of the idea step, the image
\* change of the overview, the editor and the new story
NextReference ==
  \/ DoHandleFile
  \/ DoIntakeReaderOnload
  \/ DoHandleFileChange
  \/ DoOverviewReaderOnload
  \/ NextEditor
  \/ HandleNewStory

SpecReference == InitUploads /\ [][NextReference]_vars

\* one story from the idea step to the overview and its generation controls:
\* the idea is typed, an image is uploaded, the submit is answered by a
\* rejection or by a response of NumScenes scenes numbered in order, the
\* picker is walked through
DoTypeIdea == \E value \in IdeaInputs : HandleInputChange("idea", value)
DoTypicalStoryReturns ==
  \E res \in {x \in StoryResults :
                \/ x.kind = "rejected"
                \/ /\ x.kind = "array"
                   /\ Len(x.scenes) = NumScenes
                   /\ \A i \in 1..NumScenes : x.scenes[i].scene_number = i} :
    StoryReturns(res)
NextStory ==
  \/ DoTypeIdea
  \/ DoHandleFile
  \/ DoIntakeReaderOnload
  \/ HandleSubmit
  \/ DoTypicalStoryReturns
  \/ NextTimeout
  \/ DoChangeScene
  \/ HandleFinishSelectionClick
  \/ NextPerScene
  \/ NextSequential
  \/ HandleNewStory

SpecStory == InitApp /\ [][NextStory]_vars

\* every control that sets a busy flag, with the answers of the calls: the
\* idea step on one side, the overview with its editor on the other.  A
\* behaviour of the overview uses the generation controls or the editor: the
\* editor is opened before any request was issued (nextReq is 1), and no
\* request is issued once it has been opened (currentImage is set); opening
\* it unmounts the overview, which clears every flag of the overview.
NextBusy ==
  \/ DoTypeIdea
  \/ DoHandleFile
  \/ DoIntakeReaderOnload
  \/ HandleBrainstorm
  \/ DoBrainstormReturns
  \/ HandleSubmit
  \/ DoStoryReturns
  \/ NextTimeout
  \/ currentImage = NoRef /\ NextPerScene
  \/ currentImage = NoRef /\ NextSequential
  \/ nextReq = 1 /\ EditImageStart
  \/ DoSetPrompt
  \/ EditorHandleGenerate
  \/ DoEditReturns
  \/ DoHandleSelectResult
  \/ EditorCancel

\* every outstanding call is answered and the 500 ms timer fires
CallsReturn ==
  /\ WF_vars(DoGenFirstReturns)
  /\ WF_vars(DoGenSecondReturns)
  /\ WF_vars(DoSeqCallsReturn)
  /\ WF_vars(DoBrainstormReturns)
  /\ WF_vars(DoStoryReturns)
  /\ WF_vars(NextTimeout)
  /\ WF_vars(DoEditReturns)

SpecBusy == InitUploads /\ [][NextBusy]_vars /\ CallsReturn

\* the editor over an overview whose scenes are being generated: the
\* per-scene controls and the editor
NextEditing ==
  \/ NextSingle
  \/ NextEditor

SpecEditing == InitOverview /\ [][NextEditing]_vars

\* every generation control of the three components without the credential
NextNoKey ==
  \/ DoHandleInputChange
  \/ DoHandleFile
  \/ DoIntakeReaderOnload
  \/ HandleBrainstorm
  \/ HandleSubmit
  \/ DoHandleGenerate
  \/ HandleGenerateAll
  \/ HandleStartSequential
  \/ HandleSequentialRegenerate
  \/ HandleCancelSequential
  \/ EditImageStart
  \/ DoSetPrompt
  \/ EditorHandleGenerate
  \/ EditorCancel

SpecNoKey == InitNoKey /\ [][NextNoKey]_vars

\* ------------------------------------------------------------------- claims
\* every image held for a scene, as a candidate or as the selection
HeldImages ==
  UNION {Range(generatedImages[n]) : n \in AllScenes} \cup
  {selectedImages[n] : n \in SelectedKeys}

\* the tasks a step starts
NewTasks == {t \in tasks' : t.req >= nextReq}

\* C1: once the reference image has changed, every candidate and selection
\* was cleared and no image generated with an earlier reference image is held
\* for any scene, whatever responses were in flight.
C1_NoStaleImage ==
  OverviewMounted => \A img \in HeldImages : img.ref = storyConfig.referenceImage

\* C2: "download all" is enabled exactly when the number of scenes with a
\* selected image equals the number of scenes.
C2_DownloadAllIffAllSelected ==
  OverviewMounted =>
    (DownloadAllEnabled <=>
       Cardinality({i \in 1..Len(scenes) :
                      selectedImages[scenes[i].sceneNumber] # NoImage})
         = Len(scenes))

C2_Witness ==
  /\ DownloadAllEnabled
  /\ \A n \in SceneNumbers : selectedImages[n] \in Range(generatedImages[n])

\* C3: in sequential mode a call pair for scene K+1 is only started in a step
\* after which scene K has a selected image.
C3_NextSceneNeedsSelection ==
  [][\A t \in NewTasks :
       (t.kind = "seq" /\ FindIndex(t.scene) > 1) =>
         selectedImages'[scenes[FindIndex(t.scene) - 1].sceneNumber] # NoImage]_vars

C3_Witness ==
  \E t \in tasks :
    /\ t.kind = "seq"
    /\ t.scene = scenes[2].sceneNumber
    /\ selectedImages[scenes[1].sceneNumber] # NoImage
    /\ currentSequentialScene = t.scene

C10_FailureLeavesSceneUntouched ==
  [][\A t \in tasks :
       (t.kind = "gen" /\ t.r1 = NoImage /\ GenSecondReturns(t, NoImage)) =>
         /\ MsgGenFailed(t.scene) \in alerted'
         /\ generatedImages'[t.scene] = t.before.gen
         /\ selectedImages'[t.scene] = t.before.sel]_vars

\* C5: in the picker the selection indices stay in {0, 1} and the story text
\* and the four prompt variants of every scene stay those of the initial list.
C5_PickerKeepsContent ==
  PickerMounted =>
    /\ Len(storyScenes) = Len(generatedScenes[1])
    /\ \A i \in 1..Len(storyScenes) :
         /\ storyScenes[i].selected_image_prompt_index \in {0, 1}
         /\ storyScenes[i].selected_video_prompt_index \in {0, 1}
         /\ storyScenes[i].story_content = generatedScenes[1][i].story_content
         /\ storyScenes[i].image_prompts = generatedScenes[1][i].image_prompts
         /\ storyScenes[i].image_to_video_prompts =
              generatedScenes[1][i].image_to_video_prompts

\* the second scene is shown with the second variant chosen on both axes
C5_Witness ==
  /\ PickerMounted
  /\ currentSceneIndex = 1
  /\ storyScenes[2].selected_image_prompt_index = 1
  /\ storyScenes[2].selected_video_prompt_index = 1

\* the response carries variant k of this prompt array
VariantPresent(raw, k) ==
  raw.isArray /\ k <= Len(raw.items) /\ raw.items[k] # NullPrompt

\* C6: the scene list made of a parsed response, and handed to the controller,
\* has one scene per entry in the order of the response, each with exactly two
\* image and two video variants, a missing variant being the placeholder, and
\* both selection indices 0.
C6_SceneListFollowsResponse ==
  [][/\ \A res \in StoryResults :
          (res.kind = "array" /\ StoryReturns(res)) =>
            /\ pendingNext' # Null
            /\ Len(pendingNext'[1]) = Len(res.scenes)
            /\ \A i \in 1..Len(res.scenes) :
                 LET out == pendingNext'[1][i]
                     in == res.scenes[i]
                 IN /\ out.scene_number = in.scene_number
                    /\ out.story_content = in.story_content
                    /\ Len(out.image_prompts) = 2
                    /\ Len(out.image_to_video_prompts) = 2
                    /\ \A k \in 1..2 :
                         /\ out.image_prompts[k] =
                              IF VariantPresent(in.image_prompts, k)
                              THEN in.image_prompts.items[k]
                              ELSE MissingPrompt
                         /\ out.image_to_video_prompts[k] =
                              IF VariantPresent(in.image_to_video_prompts, k)
                              THEN in.image_to_video_prompts.items[k]
                              ELSE MissingPrompt
                    /\ out.selected_image_prompt_index = 0
                    /\ out.selected_video_prompt_index = 0
     /\ NextTimeout => generatedScenes' = pendingNext]_vars

\* a list of two scenes was handed over, the second with placeholders
C6_Witness ==
  /\ appStep = "generator"
  /\ generatedScenes # Null
  /\ Len(generatedScenes[1]) = 2
  /\ generatedScenes[1][1].image_prompts = <<PromptA, PromptB>>
  /\ generatedScenes[1][2].image_prompts = <<PromptA, MissingPrompt>>
  /\ generatedScenes[1][2].image_to_video_prompts = <<MissingPrompt, PromptB>>

\* a step that starts no request and no file read and leaves the reference
\* image, the configuration and every generated or selected image alone
RejectedUntouched ==
  UNCHANGED <<storyConfig, generatedImages, selectedImages, tasks, storyReq,
              brainstormReq, editReq, pendingReads>>

\* C7 as stated: every upload of more than 10MB, at the intake or at the
\* overview, is rejected with the file-size error and changes nothing, and an
\* image of exactly 10MB is accepted.
C7_OversizeReportsFileSize ==
  [][\A file \in Files :
       /\ (file.size > MaxFileSize /\ HandleFile(file)) =>
            error' = Msg("errorFileSize") /\ RejectedUntouched
       /\ (file.size > MaxFileSize /\ HandleFileChange(file)) =>
            Msg("errorFileSize") \in alerted' /\ RejectedUntouched
       /\ (file.size = MaxFileSize /\ IsImageType(file.type)
             /\ (HandleFile(file) \/ HandleFileChange(file))) =>
            /\ \E r \in pendingReads' \ pendingReads : r.data = file.data
            /\ alerted' = {}
            /\ error' = error]_vars

\* C7 amended: an image file of more than 10MB is rejected with the file-size
\* error, any other file of more than 10MB with the invalid-image error; both
\* rejections start no request and no read and change no image and no
\* configuration; an image of exactly 10MB is accepted.
C7_OversizeRejected ==
  [][\A file \in Files :
       LET message == IF IsImageType(file.type) THEN Msg("errorFileSize")
                      ELSE Msg("errorInvalidImage")
       IN /\ (file.size > MaxFileSize /\ HandleFile(file)) =>
               error' = message /\ RejectedUntouched
          /\ (file.size > MaxFileSize /\ HandleFileChange(file)) =>
               alerted' = {message} /\ RejectedUntouched
          /\ (file.size = MaxFileSize /\ IsImageType(file.type)
                /\ (HandleFile(file) \/ HandleFileChange(file))) =>
               /\ \E r \in pendingReads' \ pendingReads : r.data = file.data
               /\ alerted' = {}
               /\ error' = error]_vars

\* the overview has just rejected an oversize image while a scene has a
\* selected image
C7_Witness ==
  /\ OverviewMounted
  /\ alerted = {Msg("errorFileSize")}
  /\ \E n \in SceneNumbers : selectedImages[n] # NoImage

\* C8: a submit with an idea that is empty after trimming or without a
\* reference image reports its specific error, issues no request and stays in
\* the idea step; a request is issued only with an idea and a reference image.
C8_SubmitValidates ==
  [][HandleSubmit =>
       LET noIdea == Trim(storyConfig.idea) = <<>>
           noImage == storyConfig.referenceImage = NoRef
       IN /\ noIdea => error' = Msg("errorStoryDescription")
          /\ (~noIdea /\ noImage) => error' = Msg("errorNoReferenceImage")
          /\ (noIdea \/ noImage) =>
               /\ storyReq' = Null
               /\ UNCHANGED <<appStep, tasks, brainstormReq, editReq, isGenerating>>
          /\ storyReq' # Null => ~noIdea /\ ~noImage]_vars

\* a submit with an idea and without a reference image was just rejected
C8_Witness ==
  /\ appStep = "idea"
  /\ error = Msg("errorNoReferenceImage")
  /\ Trim(storyConfig.idea) # <<>>
  /\ storyConfig.referenceImage = NoRef
  /\ storyReq = Null

\* no external call is in flight or about to be answered
NoRequests ==
  /\ tasks = {}
  /\ ~brainstormReq
  /\ storyReq = Null
  /\ pendingNext = Null
  /\ editReq = {}

\* C9: without the credential no step of the intake, the overview or the
\* editor starts an external call, and every generation control that is used
\* surfaces an error.
C9_NoCredentialNoCall ==
  [][/\ NoRequests'
     /\ HandleBrainstorm =>
          MsgApiKey \in alerted' /\ error' = Msg("errorAiInit")
     /\ HandleSubmit =>
          \/ error' = Msg("errorStoryDescription")
          \/ error' = Msg("errorNoReferenceImage")
          \/ MsgApiKey \in alerted' /\ error' = Msg("errorAiInit")
     /\ \A n \in AllScenes :
          HandleGenerate(n) => {MsgApiKey, MsgGenFailed(n)} \subseteq alerted'
     /\ HandleGenerateAll =>
          /\ MsgApiKey \in alerted'
          /\ \E n \in AllScenes : MsgGenFailed(n) \in alerted'
     /\ (HandleStartSequential \/ HandleSequentialRegenerate) =>
          MsgApiKey \in alerted'
     /\ EditorHandleGenerate =>
          {MsgApiKey, Msg("errorAiInit")} \subseteq alerted']_vars

\* the overview without the credential has just failed a scene's generation
C9_Witness ==
  /\ ~apiKey
  /\ OverviewMounted
  /\ NoRequests
  /\ {MsgApiKey, MsgGenFailed(1)} \subseteq alerted

\* C11: a cancel of the sequential mode, while loading or while choosing and
\* at any scene, leaves no candidates and no selected image for any scene and
\* leaves the sequential mode; a response of the cancelled sequence that
\* arrives later puts nothing back.
C11_CancelDiscardsSequence ==
  [][/\ HandleCancelSequential =>
          /\ generatedImages' = NoImages
          /\ selectedImages' = NoSelection
          /\ ~isSequentialGenerating'
          /\ ~ModalShown'
     /\ DoSeqCallsReturn =>
          UNCHANGED <<generatedImages, selectedImages,
                      isSequentialGenerating, currentSequentialScene>>]_vars

\* the sequence was cancelled while scene 2 was loading, scene 1 having been
\* confirmed before
C11_Witness ==
  /\ ~isSequentialGenerating
  /\ isSequentialSceneLoading
  /\ generatedImages = NoImages
  /\ selectedImages = NoSelection
  /\ \E t \in tasks : t.kind = "seq" /\ t.scene = 2 /\ t.prev # NoImage

\* the scenes that have a candidate call outstanding
ScenesInFlight == {t.scene : t \in {u \in tasks : u.kind = "gen" /\ u.live}}

\* C12: while "generate all" runs, the candidate calls outstanding are those
\* of one scene at most.
C12_OneSceneAtATime ==
  isGeneratingAll => Cardinality(ScenesInFlight) <= 1

\* C13: leaving the editor without a selection closes the overlay and leaves
\* the whole configuration, the reference image included, as it was; finishing
\* with a candidate closes the overlay and makes that candidate the reference
\* image, the rest of the configuration staying as it was.
C13_EditorFinish ==
  [][/\ EditorCancel =>
          /\ ~isEditingImage'
          /\ storyConfig' = storyConfig
     /\ \A image \in Range(results) :
          HandleSelectResult(image, TRUE) =>
            /\ ~isEditingImage'
            /\ storyConfig'.referenceImage = image
            /\ storyConfig' = [storyConfig EXCEPT !.referenceImage = image]]_vars

\* the editor was left with its second candidate
C13_Witness ==
  /\ ~isEditingImage
  /\ appStep = "overview"
  /\ storyConfig.referenceImage = EditResult(2)
  /\ results # <<>>

\* C14: the step changes only from idea to generator by the hand-over of a
\* successful submit, from generator to idea by the back control, from
\* generator to overview by the finish of the selection, and from overview to
\* idea by a new story.
C14_StepTransitions ==
  [][appStep' # appStep =>
       \/ appStep = "idea" /\ appStep' = "generator" /\ NextTimeout
       \/ appStep = "generator" /\ appStep' = "idea" /\ PickerBack
       \/ appStep = "generator" /\ appStep' = "overview"
            /\ HandleFinishSelectionClick
       \/ appStep = "overview" /\ appStep' = "idea" /\ HandleNewStory]_vars

\* a story went through the picker to the overview, and a new story was
\* started there
C14_Witness ==
  /\ appStep = "idea"
  /\ generatedScenes = Null
  /\ storyScenes # <<>>
  /\ storyConfig = initialStoryConfig

\* the types the two file inputs name in their accept attribute
AcceptedTypes == {<<"image", "png">>, <<"image", "jpeg">>, <<"image", "gif">>}

\* C15: an upload, at the intake or at the overview, takes a file only if its
\* type is PNG, JPEG or GIF and its size at most 10MB; a file of any other
\* type is rejected with the invalid-image error, starts no read and does not
\* become the reference image.
C15_OnlyPngJpegGif ==
  [][\A file \in Files :
       /\ (HandleFile(file) /\ pendingReads' # pendingReads) =>
            file.type \in AcceptedTypes /\ file.size <= MaxFileSize
       /\ (HandleFileChange(file) /\ pendingReads' # pendingReads) =>
            file.type \in AcceptedTypes /\ file.size <= MaxFileSize
       /\ (HandleFile(file) /\ file.type \notin AcceptedTypes) =>
            error' = Msg("errorInvalidImage") /\ RejectedUntouched
       /\ (HandleFileChange(file) /\ file.type \notin AcceptedTypes) =>
            alerted' = {Msg("errorInvalidImage")} /\ RejectedUntouched]_vars

\* C16: the scene list handed over after a successful submit with an idea, a
\* reference image and the video type 'loop' has at least 2 and at most 4
\* entries.
C16_LoopSceneCount ==
  (/\ appStep = "generator"
   /\ generatedScenes # Null
   /\ ~IdeaMissing(storyConfig)
   /\ storyConfig.referenceImage # NoRef
   /\ storyConfig.videoType = "loop") =>
     /\ Len(generatedScenes[1]) >= 2
     /\ Len(generatedScenes[1]) <= 4

\* C17: the walk of "generate all" issues no call for a scene that has
\* candidates when the walk reaches it, candidates of a per-scene generate
\* started after the walk included.
C17_WalkSkipsGenerated ==
  [][\A t \in NewTasks : t.walk => generatedImages[t.scene] = <<>>]_vars

\* C18: the two calls of every candidate-pair request are outstanding at the
\* same time: there is no request whose first call has been answered while
\* its second call is still to be answered.
C18_CallsOverlap ==
  \A t \in tasks : t.r1 = Pending

\* the images of request req that a scene or the sequential dialog presents
Presented(req) ==
  {img \in UNION {Range(generatedImages[n]) : n \in AllScenes}
             \cup Range(sequentialImages) : img.req = req}
\* the results a and b of call 1 and call 2 without the missing ones
InCallOrder(a, b) ==
  IF a # NoImage /\ b # NoImage THEN <<a, b>>
  ELSE IF a # NoImage THEN <<a>>
  ELSE IF b # NoImage THEN <<b>>
  ELSE <<>>

\* C19: no candidate of a request is presented, in the candidate list of a
\* scene or in the sequential dialog, while a call of the request is
\* outstanding; what is written after both calls is the list of the results
\* that are not null, in call order.
C19_BothCallsBeforePresenting ==
  [][/\ \A t \in tasks' : Presented(t.req)' = {}
     /\ \A t \in tasks : \A res \in {GenResult(t, 2), NoImage} :
          (GenSecondReturns(t, res) /\ t.live) =>
            generatedImages'[t.scene] =
              IF InCallOrder(t.r1, res) = <<>> THEN generatedImages[t.scene]
              ELSE InCallOrder(t.r1, res)
     /\ \A t \in tasks : \A res1 \in {GenResult(t, 1), NoImage} :
          \A res2 \in {GenResult(t, 2), NoImage} :
            (SeqCallsReturn(t, res1, res2) /\ t.live) =>
              sequentialImages' = InCallOrder(res1, res2)]_vars

\* one scene presents both results of its request and another the second
\* result alone, the first call of its request having failed
C19_Witness ==
  /\ tasks = {}
  /\ \E n \in SceneNumbers :
       /\ Len(generatedImages[n]) = 2
       /\ generatedImages[n][1].call = 1
       /\ generatedImages[n][2].call = 2
  /\ \E n \in SceneNumbers :
       /\ Len(generatedImages[n]) = 1
       /\ generatedImages[n][1].call = 2

\* C20: while the calls of a generate or regenerate of a scene are in flight
\* the scene has neither a selected image nor candidates, the prior ones
\* having been cleared before the calls were issued.
C20_RegenerateClearsScene ==
  \A t \in tasks :
    (t.kind = "gen" /\ t.live) =>
      /\ selectedImages[t.scene] = NoImage
      /\ generatedImages[t.scene] = <<>>

\* two requests were triggered by the same control: the same button of the
\* overview or of its dialog, and for the per-scene button the same scene
SameControl(t, u) ==
  /\ t.by = u.by
  /\ t.by = "generate" => t.scene = u.scene

\* C21: no two requests triggered by the same control are outstanding
\* together: while a request of a control is in flight the control starts no
\* second one.
C21_OneRequestPerControl ==
  \A t \in tasks : \A u \in tasks :
    (t.live /\ u.live /\ t # u) => ~SameControl(t, u)

\* C22: in the picker on a scene list that is not empty the current scene
\* index is one of 0..(number of scenes - 1), and a changeScene to an index
\* below 0 or above the last index leaves the index and every scene as they
\* were.
C22_IndexInRange ==
  /\ [](PickerMounted /\ Len(storyScenes) > 0 =>
          currentSceneIndex \in 0..(Len(storyScenes) - 1))
  /\ [][\A newIndex \in -1..Len(storyScenes) :
          (ChangeScene(newIndex)
             /\ (newIndex < 0 \/ newIndex > Len(storyScenes) - 1)) =>
            UNCHANGED <<currentSceneIndex, storyScenes>>]_vars

\* the picker shows the last of two scenes, where the step forward is out of
\* range
C22_Witness ==
  /\ PickerMounted
  /\ Len(storyScenes) = 2
  /\ currentSceneIndex = 1
  /\ storyScenes[1].selected_image_prompt_index = 1

\* C23: the selection of a variant sets the selection index of the chosen
\* axis of the current scene and nothing else: the index of the other axis and
\* every other field of that scene, every other scene, the number of scenes
\* and the current scene index stay as they were.
C23_SelectionFrame ==
  [][\A type \in {"image", "video"} : \A index \in {0, 1} :
       HandleSelectionChange(type, index) =>
         LET cur == currentSceneIndex + 1
             old == storyScenes[cur]
             new == storyScenes'[cur]
         IN /\ currentSceneIndex' = currentSceneIndex
            /\ Len(storyScenes') = Len(storyScenes)
            /\ \A i \in 1..Len(storyScenes) :
                 i # cur => storyScenes'[i] = storyScenes[i]
            /\ new.id = old.id
            /\ new.scene_number = old.scene_number
            /\ new.story_content = old.story_content
            /\ new.image_prompts = old.image_prompts
            /\ new.image_to_video_prompts = old.image_to_video_prompts
            /\ IF type = "image"
               THEN /\ new.selected_image_prompt_index = index
                    /\ new.selected_video_prompt_index =
                         old.selected_video_prompt_index
               ELSE /\ new.selected_video_prompt_index = index
                    /\ new.selected_image_prompt_index =
                         old.selected_image_prompt_index]_vars

\* the second image variant was chosen on the first of two scenes, whose
\* video axis and whose neighbour keep the first variant
C23_Witness ==
  /\ PickerMounted
  /\ Len(storyScenes) = 2
  /\ currentSceneIndex = 0
  /\ storyScenes[1].selected_image_prompt_index = 1
  /\ storyScenes[1].selected_video_prompt_index = 0
  /\ storyScenes[2].selected_image_prompt_index = 0
  /\ storyScenes[2].selected_video_prompt_index = 0

\* the English text of the variant of prompts that index selects
SelectedEnglish(prompts, index) ==
  IF index = 0 THEN prompts[1].english_prompt ELSE prompts[2].english_prompt

\* C24: the step to the overview is taken by the finish action on the last
\* scene only, and the overview data it yields has one entry per scene in
\* scene order, entry i with the scene number i + 1 (i counted from 0), the
\* story text of scene i and the English text of the image variant and of the
\* video variant selected for scene i.
C24_FinishProjectsSelection ==
  [][/\ (appStep # "overview" /\ appStep' = "overview") =>
          /\ HandleFinishSelectionClick
          /\ currentSceneIndex = Len(storyScenes) - 1
     /\ HandleFinishSelectionClick =>
          /\ overviewData' # Null
          /\ Len(overviewData'[1]) = Len(storyScenes)
          /\ \A i \in 1..Len(storyScenes) :
               LET entry == overviewData'[1][i]
                   scene == storyScenes[i]
               IN /\ entry.sceneNumber = i
                  /\ entry.storyContent = scene.story_content
                  /\ entry.imagePrompt =
                       SelectedEnglish(scene.image_prompts,
                                       scene.selected_image_prompt_index)
                  /\ entry.videoPrompt =
                       SelectedEnglish(scene.image_to_video_prompts,
                                       scene.selected_video_prompt_index)]_vars

\* the overview was entered with the second image variant and the first video
\* variant of its second scene, the two variants of each axis being different
C24_Witness ==
  /\ OverviewMounted
  /\ Len(scenes) = 2
  /\ storyScenes[2].selected_image_prompt_index = 1
  /\ storyScenes[2].selected_video_prompt_index = 0
  /\ storyScenes[2].image_prompts[1] # storyScenes[2].image_prompts[2]
  /\ storyScenes[2].image_to_video_prompts[1] #
       storyScenes[2].image_to_video_prompts[2]
  /\ scenes[2].imagePrompt = storyScenes[2].image_prompts[2].english_prompt
  /\ scenes[2].videoPrompt =
       storyScenes[2].image_to_video_prompts[1].english_prompt

\* C25: in the picker on an empty scene list the only step is the way back to
\* the idea step: no selection, no navigation and no finish, so the overview
\* is not reached from there.
C25_EmptyListOnlyBack ==
  [][(PickerMounted /\ Len(storyScenes) = 0) =>
       /\ PickerBack
       /\ appStep' = "idea"
       /\ overviewData' = overviewData
       /\ UNCHANGED pickerVars]_vars

\* the picker was entered on an empty scene list and left by its back button
C25_Witness ==
  /\ appStep = "idea"
  /\ generatedScenes = Some(<<>>)
  /\ storyScenes = <<>>
  /\ overviewData = Null

\* C26: when the structured generation call is rejected or its response
\* cannot be parsed, the prompt-generation error is shown, no scene list is
\* handed over or left to be handed over, the step stays 'idea', no request
\* is started again, and isGenerating is cleared, which enables the submit.
C26_FailedGenerationAborts ==
  [][\A res \in StoryResults :
       (res.kind # "array" /\ StoryReturns(res)) =>
         /\ error' = Msg("errorPromptGeneration")
         /\ pendingNext' = Null
         /\ generatedScenes' = generatedScenes
         /\ appStep = "idea" /\ appStep' = "idea"
         /\ storyReq' = Null
         /\ ~isGenerating'
         /\ IntakeMounted']_vars

\* a response that could not be parsed has left the idea step with the error
\* and the submit enabled
C26_Witness ==
  /\ appStep = "idea"
  /\ error = Msg("errorPromptGeneration")
  /\ progress = Percent(100)
  /\ ~isGenerating
  /\ storyReq = Null
  /\ pendingNext = Null

\* C27: when the edit request of the open editor fails, a call having thrown
\* or neither call having returned an image, an error is alerted, the working
\* image and the reference image stay as they were, no results are presented
\* and the generating flag of the editor is cleared.
C27_FailedEditLeavesImage ==
  [][\A r \in editReq : \A res1 \in EditOutcomes(1) : \A res2 \in EditOutcomes(2) :
       (/\ EditReturns(r, res1, res2)
        /\ r.live
        /\ \/ Thrown \in {res1, res2}
           \/ res1 = NoRef /\ res2 = NoRef) =>
         /\ alerted' # {}
         /\ currentImage' = currentImage
         /\ storyConfig' = storyConfig
         /\ results' = <<>>
         /\ ~editGenerating'
         /\ EditorShown']_vars

\* an edit of a result taken over for further editing has just failed
C27_Witness ==
  /\ EditorShown
  /\ currentImage = EditResult(1)
  /\ alerted # {}
  /\ results = <<>>
  /\ ~editGenerating
  /\ editReq = {}

\* C28: while the structured generation call is in flight the progress is at
\* most 95 and does not decrease; it becomes 100 only by the arrival of a
\* response, and the rejection of the call leaves it where it was, below 100.
C28_ProgressCapped ==
  [][/\ storyReq' # Null => progress' >= 0 /\ progress' <= Percent(95)
     /\ (storyReq # Null /\ storyReq' # Null) => progress' >= progress
     /\ (progress # Percent(100) /\ progress' = Percent(100)) =>
          \E res \in StoryResults :
            res.kind # "rejected" /\ StoryReturns(res)
     /\ StoryReturns([kind |-> "rejected", scenes |-> <<>>]) =>
          progress' = progress /\ progress' < Percent(100)]_vars

\* the timer has brought the progress to its cap of 95 and stopped, the call
\* still being in flight
C28_Witness ==
  /\ storyReq # Null
  /\ progress = Percent(95)
  /\ ~progressInterval
  /\ isGenerating

\* what a brainstorm call comes back with
BrainstormResults ==
  [ok : {TRUE}, text : BrainstormTexts] \cup {[ok |-> FALSE, text |-> <<>>]}
\* the text without the white space at its two ends, written out for the
\* texts of at most two characters
WithoutOuterSpace(text) ==
  IF text = <<>> THEN <<>>
  ELSE IF Len(text) = 1 THEN (IF text[1] = " " THEN <<>> ELSE text)
  ELSE IF text[1] = " " /\ text[2] = " " THEN <<>>
  ELSE IF text[1] = " " THEN <<text[2]>>
  ELSE IF text[2] = " " THEN <<text[1]>>
  ELSE text

\* C29 as stated: a failed brainstorm shows the brainstorm error and leaves
\* the idea as it was, a successful one replaces the idea by the returned
\* text, and both clear isBrainstorming.
C29_BrainstormSetsReturnedText ==
  [][\A res \in BrainstormResults :
       (BrainstormReturns(res) /\ IntakeMounted) =>
         /\ ~isBrainstorming'
         /\ ~res.ok => /\ error' = Msg("brainstormError")
                       /\ storyConfig' = storyConfig
         /\ res.ok => /\ storyConfig'.idea = res.text
                      /\ error' = error]_vars

\* C29 amended: a failed brainstorm shows the brainstorm error and leaves the
\* idea as it was, a successful one replaces the idea by the returned text
\* without the white space at its two ends and changes nothing else of the
\* configuration, and both clear isBrainstorming.
C29_BrainstormSetsTrimmedText ==
  [][\A res \in BrainstormResults :
       (BrainstormReturns(res) /\ IntakeMounted) =>
         /\ ~isBrainstorming'
         /\ ~res.ok => /\ error' = Msg("brainstormError")
                       /\ storyConfig' = storyConfig
         /\ res.ok => /\ storyConfig' =
                           [storyConfig EXCEPT !.idea = WithoutOuterSpace(res.text)]
                      /\ error' = error]_vars

\* a brainstorm has replaced the idea by its text, which came with a space at
\* its end
C29_Witness ==
  /\ IntakeMounted
  /\ storyConfig.idea = <<"b">>
  /\ ~isBrainstorming
  /\ ~brainstormReq
  /\ error = NoError

\* scene n apart, the candidates and the selections are left as they were
OtherScenesUntouched(n) ==
  \A m \in AllScenes \ {n} :
    /\ generatedImages'[m] = generatedImages[m]
    /\ selectedImages'[m] = selectedImages[m]

\* C30 as stated: the selection of a candidate, by the click on it in the
\* scene's row or by the confirm of the sequential dialog, records it as the
\* selected image of the scene and leaves it as the only candidate of the
\* scene, the other scenes staying as they were.
C30_SelectionNarrows ==
  [][/\ \A n \in AllScenes : \A src \in Range(generatedImages[n]) :
          HandleSelectImage(n, src) =>
            /\ selectedImages'[n] = src
            /\ generatedImages'[n] = <<src>>
            /\ OtherScenesUntouched(n)
     /\ HandleConfirmAndNext =>
          /\ selectedImages'[currentSequentialScene] = tempSelectedImage
          /\ generatedImages'[currentSequentialScene] = <<tempSelectedImage>>
          /\ OtherScenesUntouched(currentSequentialScene)]_vars

\* C30 amended: the click on a candidate in the scene's row records it as the
\* selected image and leaves the candidates of the scene as they were; the
\* confirm of the sequential dialog records the chosen image and leaves it as
\* the only candidate of the scene; in both the other scenes stay as they were.
C30_SelectionRecorded ==
  [][/\ \A n \in AllScenes : \A src \in Range(generatedImages[n]) :
          HandleSelectImage(n, src) =>
            /\ selectedImages'[n] = src
            /\ generatedImages'[n] = generatedImages[n]
            /\ OtherScenesUntouched(n)
     /\ HandleConfirmAndNext =>
          /\ selectedImages'[currentSequentialScene] = tempSelectedImage
          /\ generatedImages'[currentSequentialScene] = <<tempSelectedImage>>
          /\ OtherScenesUntouched(currentSequentialScene)]_vars

\* the second of the two candidates of a scene is selected and both are still
\* offered
C30_Witness ==
  /\ OverviewMounted
  /\ ~isSequentialGenerating
  /\ \E n \in SceneNumbers :
       /\ Len(generatedImages[n]) = 2
       /\ selectedImages[n] = generatedImages[n][2]
       /\ ~loadingScenes[n]

\* C31: in the overview step the selected image of a scene, when there is
\* one, is one of the candidates the scene then holds, whatever the order of
\* per-scene generate, generate all, select and the responses.
C31_SelectionIsCandidate ==
  OverviewMounted =>
    \A n \in SceneNumbers :
      selectedImages[n] # NoImage => selectedImages[n] \in Range(generatedImages[n])

\* the number of the request issued last; in the sequential mode every
\* request is issued for the scene that is then the current one
LatestRequest == nextReq - 1

\* C32: in the sequential dialog the candidates that can be selected, and the
\* image that can be confirmed, come from the request issued last for the
\* current scene, never from an earlier or a cancelled request.
C32_CandidatesOfLatestRequest ==
  (ModalShown /\ ~isSequentialSceneLoading) =>
    /\ \A img \in Range(sequentialImages) : img.req = LatestRequest
    /\ tempSelectedImage # NoImage => tempSelectedImage.req = LatestRequest

\* C33: the generating-all flag and the sequential-generating flag are never
\* both set, and a step that sets one of them starts from and ends in a state
\* in which the other is clear.
C33_ModesExclusive ==
  [][/\ ~(isGeneratingAll' /\ isSequentialGenerating')
     /\ (isSequentialGenerating' /\ ~isSequentialGenerating) =>
          ~isGeneratingAll /\ ~isGeneratingAll'
     /\ (isGeneratingAll' /\ ~isGeneratingAll) =>
          ~isSequentialGenerating /\ ~isSequentialGenerating']_vars

\* a walk is at its second scene: both mode buttons are disabled
C33_Witness ==
  /\ OverviewMounted
  /\ isGeneratingAll
  /\ ~isSequentialGenerating
  /\ \E t \in tasks : t.walk /\ t.live /\ t.scene = 2 /\ loadingScenes[2]

\* C34: whenever the step is the overview, the overview list is there and
\* not empty, is as long as the picker's scene list, and its i-th entry has
\* the scene number i.
C34_OverviewScenesNumbered ==
  appStep = "overview" =>
    /\ overviewData # Null
    /\ Len(scenes) > 0
    /\ Len(scenes) = Len(storyScenes)
    /\ Len(scenes) = Len(generatedScenes[1])
    /\ \A i \in 1..Len(scenes) : scenes[i].sceneNumber = i

\* the overview of a two-scene story whose response numbered its scenes
\* otherwise
C34_Witness ==
  /\ OverviewMounted
  /\ Len(scenes) = 2
  /\ storyScenes[1].scene_number = 7
  /\ storyScenes[2].scene_number = 3

\* C35: the has-reference-image flag of the configuration is set exactly
\* when its reference image is not null.
C35_FlagIffImage ==
  storyConfig.hasReferenceImage <=> storyConfig.referenceImage # NoRef

\* a new story, begun from an overview whose editor had been opened, has a
\* reference image again
C35_Witness ==
  /\ appStep = "idea"
  /\ overviewData = Null
  /\ currentImage # NoRef
  /\ ~isEditingImage
  /\ storyConfig.hasReferenceImage
  /\ storyConfig.referenceImage \in RefImages

\* C36: the step is the overview only with a reference image in the
\* configuration, and every generation request a step issues carries a
\* reference image.
C36_CallsCarryReference ==
  [][/\ appStep' = "overview" => storyConfig'.referenceImage # NoRef
     /\ \A t \in NewTasks : t.ref # NoRef]_vars

\* the overview was reached from the idea step and a request of each kind is
\* outstanding with the uploaded image
C36_Witness ==
  /\ OverviewMounted
  /\ uploads = 1
  /\ \E t \in tasks : t.kind = "gen" /\ t.live /\ t.ref = storyConfig.referenceImage
  /\ \E t \in tasks : t.kind = "seq" /\ t.live /\ t.ref = storyConfig.referenceImage

\* C37: every busy flag that is set is cleared again, given that every call
\* is answered: the loading flag of a scene, the generating-all flag, the
\* loading flag of the sequential dialog, the generating and brainstorming
\* flags of the idea step and the generating flag of the editor, each a
\* state of its component while the component is mounted.
C37_BusyFlagsClear ==
  /\ \A n \in AllScenes :
       (OverviewMounted /\ loadingScenes[n]) ~> ~(OverviewMounted /\ loadingScenes[n])
  /\ (OverviewMounted /\ isGeneratingAll) ~> ~(OverviewMounted /\ isGeneratingAll)
  /\ (OverviewMounted /\ isSequentialSceneLoading)
       ~> ~(OverviewMounted /\ isSequentialSceneLoading)
  /\ (IntakeMounted /\ isGenerating) ~> ~(IntakeMounted /\ isGenerating)
  /\ (IntakeMounted /\ isBrainstorming) ~> ~(IntakeMounted /\ isBrainstorming)
  /\ (EditorShown /\ editGenerating) ~> ~(EditorShown /\ editGenerating)

\* a sequential request has failed and the dialog is no longer loading
C37_Witness ==
  /\ ModalShown
  /\ nextReq > 1
  /\ tasks = {}
  /\ sequentialImages = <<>>
  /\ ~isSequentialSceneLoading

\* the scenes after the scene of walk task t that had no candidates when the
\* walk was started
LaterScenes(t) == {m \in SceneNumbers : m > t.scene /\ m \notin t.snap}

\* C38: when the calls of a scene of a "generate all" walk have returned,
\* with or without an image, the walk goes on with the lowest later scene
\* that had no candidates when the walk was started and the generating-all
\* flag stays set; the flag is cleared only by the return of the walk's last
\* scene.
C38_WalkSurvivesFailure ==
  [][/\ \A t \in tasks : \A res \in {GenResult(t, 2), NoImage} :
          (t.walk /\ GenSecondReturns(t, res)) =>
            IF LaterScenes(t) # {}
            THEN /\ \E u \in NewTasks :
                      /\ u.walk
                      /\ u.snap = t.snap
                      /\ u.scene \in LaterScenes(t)
                      /\ \A m \in LaterScenes(t) : u.scene <= m
                 /\ isGeneratingAll' = isGeneratingAll
            ELSE /\ NewTasks = {}
                 /\ t.live => ~isGeneratingAll'
     /\ (isGeneratingAll /\ ~isGeneratingAll') =>
          \E t \in tasks \ tasks' : t.walk /\ t.r1 # Pending /\ LaterScenes(t) = {}]_vars

\* the first scene of a walk has failed and the second scene is being
\* generated
C38_Witness ==
  /\ OverviewMounted
  /\ isGeneratingAll
  /\ generatedImages[1] = <<>>
  /\ ~loadingScenes[1]
  /\ MsgGenFailed(1) \in alerted
  /\ \E t \in tasks : t.walk /\ t.live /\ t.scene = 2 /\ t.snap = {}

\* C39: opening the editor from the overview, staying in it and leaving it
\* with the cancel button leave the candidates and the selected image of
\* every scene as they were.
C39_EditorKeepsImages ==
  [][(EditImageStart \/ EditorCancel \/ (EditorShown /\ EditorShown')) =>
       UNCHANGED <<generatedImages, selectedImages>>]_vars

\* C40: the confirmation of the last scene of a sequence ends the sequential
\* mode with every scene holding one candidate, which is its selected image,
\* and with "download all" enabled.
C40_SequenceCompletes ==
  [][(HandleConfirmAndNext /\ ~isSequentialGenerating') =>
       /\ \A n \in SceneNumbers :
            /\ selectedImages'[n] # NoImage
            /\ generatedImages'[n] = <<selectedImages'[n]>>
       /\ DownloadAllEnabled']_vars
====
